---- MODULE Spec2Model ----
(***************************************************************************)
(* Verification model of the Subtitle-Processor repository.                *)
(*                                                                         *)
(* Text is modelled as sequences of tokens: a line of an ASS file is a     *)
(* sequence of tokens (each token stands for a run of characters), a file  *)
(* is the sequence of lines that content.split('\n') yields.  The string   *)
(* tests of the code (strip, startswith, endswith, in) are computed on the *)
(* token sequences.                                                        *)
(***************************************************************************)
EXTENDS Integers, Sequences, FiniteSets, TLC

VARIABLES
    ass_file,       \* lines of the ASS file on disk (content.split('\n'))
    style_config,   \* the style dictionary handed to the styling methods
    prev_file,      \* lines of the ASS file before the last successful call
    patch_result,   \* "none", or the last return value "True" / "False"
    patch_calls,    \* number of apply_styling_from_config calls that returned True
    io_error,       \* whether the last call's open()/read()/write() raised
    style_name,     \* argument of create_ass_style_line
    style_line,     \* value returned by create_ass_style_line
    sub_content,    \* content of the subtitle file given to detect_subtitle_format
    sub_readable,   \* whether open()/read() of that file succeeds
    detected,       \* value returned by detect_subtitle_format
    processors,     \* VideoProcessorFactory._processors: extension -> processor
    file_path,      \* argument of get_processor / can_process
    reg_log,        \* the processors registered so far, in call order
    lookup,         \* "none", or the processor found by the last lookup ("None" if none)
    can,            \* "none", or the value returned by the last can_process call
    pc,             \* position of process_video_file: "idle", a stage, "except", "done"
    track_id,       \* argument track_id (NoneId when not given)
    style_config_file, \* argument style_config_file ("" when not given)
    manual_styling, \* argument manual_styling
    output_video,   \* argument / local output_video (<<>> when not given)
    aegisub_path,   \* AegisubProcessor.aegisub_path, found at construction
    subtitle_tracks,\* local: ids of the analyzed subtitle tracks, in list order
    selected_track, \* local: id of the selected track (NoneId before / when absent)
    final_style_config, \* local: the resolved style dictionary
    temp_dir,       \* FileManager.temp_dir (NoDir for None)
    fs_dirs,        \* the workspace directories that exist on disk
    stages,         \* the stages entered by the current run, in order
    calls,          \* the collaborator calls of the current run and their outcomes
    exc,            \* "none", or the exception raised inside the try block
    result,         \* "none", "True", "False", or "raised" for the current run
    runs,           \* number of runs that have returned
    run_pc,         \* concurrent runs: position of each run
    run_temp_dir,   \* concurrent runs: temp_dir of each run's own FileManager
    shared_dirs,    \* concurrent runs: the workspace directories that exist
    br_pc,          \* position of backup_and_replace_file
    br_files,       \* path -> content of the file there ("none" if no file)
    br_backup,      \* local backup_path: index of the backup name (NoBackup if unset)
    br_result,      \* "none", or the value returned by backup_and_replace_file
    listbox,        \* GUI: the visible queue, file_listbox
    processing_active, \* GUI: the flag processing_active
    process_btn,    \* GUI: state of the Start Processing button
    progress_bar,   \* GUI: "stopped" or "running"
    progress_var,   \* GUI: the progress text
    after_queue,    \* GUI: callbacks scheduled with root.after, oldest first
    workers,        \* GUI: the worker threads started so far, one record each
    asking,         \* GUI: start_processing is waiting in its askyesno dialog
    files_to_process, \* GUI: the local files_to_process of that start_processing
    thread          \* which thread took the last step: "main" or "worker"

patchVars   == <<ass_file, prev_file, patch_result, patch_calls, io_error>>
styleVars   == <<style_name, style_line>>
detectVars  == <<sub_content, sub_readable, detected>>
factoryVars == <<processors, reg_log, file_path, lookup, can>>
pipeVars    == <<pc, track_id, style_config_file, manual_styling, output_video,
                 aegisub_path, subtitle_tracks, selected_track, final_style_config,
                 temp_dir, fs_dirs, stages, calls, exc, result, runs>>
runVars     == <<run_pc, run_temp_dir, shared_dirs>>
replaceVars == <<br_pc, br_files, br_backup, br_result>>
guiVars     == <<listbox, processing_active, process_btn, progress_bar, progress_var,
                 after_queue, workers, asking, files_to_process, thread>>
vars == <<ass_file, style_config, prev_file, patch_result, patch_calls, io_error,
          style_name, style_line, sub_content, sub_readable, detected,
          processors, reg_log, file_path, lookup, can,
          pc, track_id, style_config_file, manual_styling, output_video,
          aegisub_path, subtitle_tracks, selected_track, final_style_config,
          temp_dir, fs_dirs, stages, calls, exc, result, runs,
          run_pc, run_temp_dir, shared_dirs,
          br_pc, br_files, br_backup, br_result,
          listbox, processing_active, process_btn, progress_bar, progress_var,
          after_queue, workers, asking, files_to_process, thread>>

(***************************************************************************)
(* Bounds                                                                  *)
(***************************************************************************)
MaxLines == 5
MaxApplies == 2
MaxCfgKeys == 2
MaxContent == 5
MaxPath == 5
MaxRegs == 2
MaxTracks == 2
MaxRuns == 1
MaxWorkspaces == 3
MaxBackups == 3
MaxFiles == 2
MaxBatches == 1

(***************************************************************************)
(* Generic sequence helpers                                                *)
(***************************************************************************)
SeqsUpTo(S, n) == UNION {[1..k -> S] : k \in 0..n}

Last(s) == s[Len(s)]

\* str.startswith(prefix)
StartsWith(s, prefix) ==
    /\ Len(s) >= Len(prefix)
    /\ SubSeq(s, 1, Len(prefix)) = prefix

\* str.endswith(suffix)
EndsWith(s, suffix) ==
    /\ Len(s) >= Len(suffix)
    /\ SubSeq(s, Len(s) - Len(suffix) + 1, Len(s)) = suffix

Whitespace == {" ", "\n"}

RECURSIVE LStrip(_)
LStrip(s) == IF s # <<>> /\ Head(s) \in Whitespace THEN LStrip(Tail(s)) ELSE s

RECURSIVE RStrip(_)
RStrip(s) ==
    IF s # <<>> /\ Last(s) \in Whitespace THEN RStrip(SubSeq(s, 1, Len(s) - 1)) ELSE s

\* str.strip()
Strip(s) == RStrip(LStrip(s))

\* the characters of a token sequence, as one string
RECURSIVE Render(_)
Render(s) == IF s = <<>> THEN "" ELSE Head(s) \o Render(Tail(s))

\* s with x inserted so that it becomes element number i (list.insert, 1-based)
InsertAt(s, i, x) == SubSeq(s, 1, i - 1) \o <<x>> \o SubSeq(s, i, Len(s))

(***************************************************************************)
(* Style dictionaries.  A value is an int or a str; an f-string formats it *)
(* with str().                                                             *)
(***************************************************************************)
IntV(n) == [isInt |-> TRUE, n |-> n, s |-> ""]
StrV(s) == [isInt |-> FALSE, n |-> 0, s |-> s]

\* f"{value}"
Str(v) == IF v.isInt THEN ToString(v.n) ELSE v.s

\* dict.get(key, default)
Get(d, key, default) == IF key \in DOMAIN d THEN d[key] ELSE default

StyleKeys == {"font_name", "font_size", "primary_color", "secondary_color",
              "outline_color", "back_color", "bold", "italic", "outline",
              "shadow", "alignment", "margin_left", "margin_right",
              "margin_vertical"}

EmptyConfig == [k \in {} |-> IntV(0)]

(***************************************************************************)
(* SubtitleProcessor.create_ass_style_line                                 *)
(***************************************************************************)
\* one  style_line += f"{style_config.get(key, default)},"
Field(cfg, key, default) == <<Str(Get(cfg, key, default)), ",">>

FixedFormatting_BorderStyle0 ==
    <<"0", ",", "0", ",", "100", ",", "100", ",", "0", ",", "0", ",", "0", ",">>

FixedFormatting == <<"0", ",", "0", ",", "100", ",", "100", ",", "0", ",", "0", ",", "1", ",">>

create_ass_style_line(cfg, name) ==
    <<"Style:", " ", name, ",">>
    \o Field(cfg, "font_name", StrV("Arial"))
    \o Field(cfg, "font_size", IntV(20))
    \o Field(cfg, "primary_color", StrV("&H00FFFFFF"))
    \o Field(cfg, "secondary_color", StrV("&H000000FF"))
    \o Field(cfg, "outline_color", StrV("&H00000000"))
    \o Field(cfg, "back_color", StrV("&H80000000"))
    \o Field(cfg, "bold", IntV(0))
    \o Field(cfg, "italic", IntV(0))
    \o FixedFormatting
    \o Field(cfg, "outline", IntV(2))
    \o Field(cfg, "shadow", IntV(0))
    \o Field(cfg, "alignment", IntV(2))
    \o Field(cfg, "margin_left", IntV(10))
    \o Field(cfg, "margin_right", IntV(10))
    \o Field(cfg, "margin_vertical", IntV(10))
    \o <<"1">>

(***************************************************************************)
(* SubtitleProcessor.apply_styling_from_config                             *)
(***************************************************************************)
StylesHeader == <<"[", "V4+ Styles", "]">>

\* tokens whose characters include the text 'Default'
DefaultBearing == {"Default", "DefaultSans"}

\* 'Default' in line
HasDefaultText(line) == \E i \in 1..Len(line) : line[i] \in DefaultBearing

IsStylesHeader_AnyHeader(line) == StartsWith(Strip(line), <<"[">>)

\* line.strip() == '[V4+ Styles]'
IsStylesHeader(line) == Strip(line) = StylesHeader

\* line.startswith('[') and line.endswith(']') and line.strip() != '[V4+ Styles]'
IsOtherHeader(line) ==
    /\ StartsWith(line, <<"[">>)
    /\ EndsWith(line, <<"]">>)
    /\ Strip(line) # StylesHeader

IsFormatLine(line) == StartsWith(line, <<"Format:">>)

IsStyleLine(line) == StartsWith(line, <<"Style:">>)

IsReplaceTarget_EveryMatch(line, default_style_replaced) ==
    /\ IsStyleLine(line)
    /\ HasDefaultText(line)

\* the test that selects the line to replace
IsReplaceTarget(line, default_style_replaced) ==
    /\ IsStyleLine(line)
    /\ HasDefaultText(line)
    /\ ~default_style_replaced

LoopInit ==
    [new_lines |-> <<>>, in_v4_styles |-> FALSE,
     style_format_found |-> FALSE, default_style_replaced |-> FALSE]

\* one iteration of  for line in lines
LoopBody(st, line, cfg) ==
    IF IsStylesHeader(line)
    THEN [st EXCEPT !.in_v4_styles = TRUE, !.new_lines = Append(@, line)]
    ELSE LET inside == IF IsOtherHeader(line) THEN FALSE ELSE st.in_v4_styles
             s1 == [st EXCEPT !.in_v4_styles = inside]
         IN  IF inside
             THEN IF IsFormatLine(line)
                  THEN [s1 EXCEPT !.style_format_found = TRUE,
                                  !.new_lines = Append(@, line)]
                  ELSE IF IsReplaceTarget(line, s1.default_style_replaced)
                       THEN [s1 EXCEPT !.default_style_replaced = TRUE,
                                       !.new_lines = Append(@, create_ass_style_line(cfg, "Default"))]
                       ELSE [s1 EXCEPT !.new_lines = Append(@, line)]
             ELSE [s1 EXCEPT !.new_lines = Append(@, line)]

RECURSIVE Loop(_, _, _, _)
Loop(lines, i, st, cfg) ==
    IF i > Len(lines) THEN st ELSE Loop(lines, i + 1, LoopBody(st, lines[i], cfg), cfg)

\* while section_start >= 0 and not new_lines[section_start].strip() == '[V4+ Styles]'
HeaderBefore(new_lines, i) == \E j \in 1..(i - 1) : IsStylesHeader(new_lines[j])

\* the positions at which the insertion loop would insert (i > 0 is i > 1 here)
InsertCandidates(new_lines) ==
    {i \in 1..Len(new_lines) :
        IsFormatLine(new_lines[i]) /\ i > 1 /\ HeaderBefore(new_lines, i)}

Min(S) == CHOOSE x \in S : \A y \in S : x <= y

\* the insertion loop: insert after the first candidate, then break
InsertDefault(new_lines, cfg) ==
    IF InsertCandidates(new_lines) = {}
    THEN new_lines
    ELSE InsertAt(new_lines, Min(InsertCandidates(new_lines)) + 1,
                  create_ass_style_line(cfg, "Default"))

\* the lines left in the file and the value returned; io_ok is false when
\* open(), read() or write() raises, which the except clause turns into False
apply_styling_from_config(lines, cfg, io_ok) ==
    IF ~io_ok
    THEN [lines |-> lines, ret |-> "False"]
    ELSE LET st == Loop(lines, 1, LoopInit, cfg)
         IN  [lines |-> IF ~st.default_style_replaced /\ st.style_format_found
                        THEN InsertDefault(st.new_lines, cfg)
                        ELSE st.new_lines,
              ret |-> "True"]

(***************************************************************************)
(* SubtitleProcessor.detect_subtitle_format.  The content of a subtitle    *)
(* file is a sequence of tokens: section header, magic string, whitespace, *)
(* an index number, a timing line, text.                                   *)
(***************************************************************************)
ScriptInfo == "[Script Info]"
WebVTT     == "WEBVTT"
Index      == "1"
SrtTiming  == "00:00:01,000 --> 00:00:02,000"
VttTiming  == "00:00:01.000 --> 00:00:02.000"
Text       == "Hello"

ContentTokens == {ScriptInfo, WebVTT, " ", "\n", Index, SrtTiming, VttTiming, Text}

\* tokens whose last character is a digit: a match of \d+ can end there
EndsInDigit == {Index, SrtTiming, VttTiming}

\* tokens that start with \d{2}:\d{2}:\d{2},\d{3} --> \d{2}:\d{2}:\d{2},\d{3}
StartsWithSrtTiming == {SrtTiming}

\* re.search(r'\d+\n\d{2}:\d{2}:\d{2},\d{3} --> \d{2}:\d{2}:\d{2},\d{3}', content)
SrtPatternFound(content) ==
    \E i \in 1..(Len(content) - 2) :
        /\ content[i] \in EndsInDigit
        /\ content[i + 1] = "\n"
        /\ content[i + 2] \in StartsWithSrtTiming

\* '[Script Info]' in content
HasScriptInfo(content) == \E i \in 1..Len(content) : content[i] = ScriptInfo

detect_subtitle_format_VttFirst(content, readable) ==
    IF ~readable THEN "unknown"
    ELSE IF StartsWith(Strip(content), <<WebVTT>>) THEN "vtt"
    ELSE IF HasScriptInfo(content) THEN "ass"
    ELSE IF SrtPatternFound(content) THEN "srt"
    ELSE "unknown"

\* readable is false when open() or read() raises
detect_subtitle_format(content, readable) ==
    IF ~readable THEN "unknown"
    ELSE IF HasScriptInfo(content) THEN "ass"
    ELSE IF StartsWith(Strip(content), <<WebVTT>>) THEN "vtt"
    ELSE IF SrtPatternFound(content) THEN "srt"
    ELSE "unknown"

(***************************************************************************)
(* VideoProcessorFactory.  A path is a sequence of characters.             *)
(***************************************************************************)
PathChars == {".", "/", "m", "k", "v", "M", "V"}

\* str.lower() on one character
LowerChar(c) == CASE c = "M" -> "m" [] c = "V" -> "v" [] OTHER -> c

\* str.lower()
Lower(s) == [i \in 1..Len(s) |-> LowerChar(s[i])]

Max(S) == CHOOSE x \in S : \A y \in S : x >= y

\* str.rfind(c), 1-based, 0 when absent
RFind(s, c) == LET occ == {i \in 1..Len(s) : s[i] = c} IN IF occ = {} THEN 0 ELSE Max(occ)

\* os.path.splitext(p)[1]: the part from the last dot of the last path
\* component, empty when that component has no dot or only leading dots
SplitExt(path) ==
    LET sepIndex == RFind(path, "/")
        dotIndex == RFind(path, ".")
    IN  IF dotIndex > sepIndex
           /\ \E i \in (sepIndex + 1)..(dotIndex - 1) : path[i] # "."
        THEN SubSeq(path, dotIndex, Len(path))
        ELSE <<>>

MkvExt == <<".", "m", "k", "v">>
MkExt  == <<".", "m", "k">>

\* get_supported_extensions() of the processors that get registered
SupportedExtensions(processor) ==
    IF processor = "MKVProcessor" THEN <<MkvExt>> ELSE <<MkExt, MkvExt>>

Processors == {"MKVProcessor", "CustomProcessor"}

register_processor_KeepFirst(registry, processor) ==
    LET exts == {SupportedExtensions(processor)[i] :
                    i \in 1..Len(SupportedExtensions(processor))}
    IN  [e \in (DOMAIN registry) \cup exts |->
            IF e \in DOMAIN registry THEN registry[e] ELSE processor]

\* for ext in supported_extensions: self._processors[ext] = processor
register_processor(registry, processor) ==
    LET exts == {SupportedExtensions(processor)[i] :
                    i \in 1..Len(SupportedExtensions(processor))}
    IN  [e \in (DOMAIN registry) \cup exts |->
            IF e \in exts THEN processor ELSE registry[e]]

\* __init__: empty registry, then _register_default_processors
NewFactory == register_processor([e \in {} |-> "None"], "MKVProcessor")

get_processor_NoLower(registry, path) == Get(registry, SplitExt(path), "None")

\* self._processors.get(os.path.splitext(file_path)[1].lower())
get_processor(registry, path) == Get(registry, Lower(SplitExt(path)), "None")

\* self.get_processor(file_path) is not None
can_process(registry, path) ==
    IF get_processor(registry, path) # "None" THEN "True" ELSE "False"

(***************************************************************************)
(* Inputs of the Style Patcher                                             *)
(***************************************************************************)
HDR      == <<"[", "V4+ Styles", "]">>
HDRPAD   == <<" ", "[", "V4+ Styles", "]", " ">>
EVENTS   == <<"[", "Events", "]">>
FMT      == <<"Format:", " ", "Name">>
OLDDEF   == <<"Style:", " ", "Default", ",", "Tahoma">>
TITLE    == <<"Style:", " ", "Title", ",", "Tahoma">>
TITLEDEF == <<"Style:", " ", "Title", ",", "DefaultSans">>

LinePool == {HDR, HDRPAD, EVENTS, FMT, OLDDEF, TITLE, TITLEDEF}

Documents == SeqsUpTo(LinePool, MaxLines) \ {<<>>}

VerdanaConfig == [k \in {"font_name", "font_size"} |->
                     IF k = "font_name" THEN StrV("Verdana") ELSE IntV(24)]

PatchConfigs == {EmptyConfig, VerdanaConfig}

(***************************************************************************)
(* UniversalSubtitleProcessor.process_video_file and its collaborators.    *)
(* None is NoneId for a track id, NoDir for FileManager.temp_dir, "" for a *)
(* path argument and the empty dictionary for a style dictionary (the code *)
(* only tests these for truth).                                            *)
(***************************************************************************)
NoneId == 0 - 1
NoDir  == 0

\* the statements of the try block, in program order; the finally block last
StageOrder == <<"Validate", "ToolCheck", "FormatCheck", "Setup", "Analyze",
                "TrackSelect", "Extract", "ConvertIfNeeded", "Style", "Merge",
                "Cleanup">>

StageIndex(stage) == CHOOSE i \in 1..Len(StageOrder) : StageOrder[i] = stage

NextStage_SkipsTrackSelect(stage) ==
    IF stage = "Analyze" THEN "Extract" ELSE StageOrder[StageIndex(stage) + 1]

\* the stage whose statements follow those of stage
NextStage(stage) == StageOrder[StageIndex(stage) + 1]

\* the exception classes raised by the collaborators; all derive from Exception
ExceptionKinds == {"OSError", "CalledProcessError", "ValueError",
                   "FileNotFoundError", "EOFError"}

Caught_OnlyValueError(kind) == kind = "ValueError"

\* except Exception as e
Caught(kind) == kind \in ExceptionKinds

\* any(tools_status.values())
AnyTool(tools_status) == \E name \in DOMAIN tools_status : tools_status[name]

\* the processors check_tools_available finds through the registry
RegisteredProcessors(registry) == {registry[ext] : ext \in DOMAIN registry}

\* Path(input_path).parent / f"{path.stem}{suffix}{path.suffix}"
generate_output_path(path) ==
    SubSeq(path, 1, Len(path) - Len(SplitExt(path)))
        \o <<"_processed">> \o SplitExt(path)

select_track_Truthy(tracks, tid) ==
    IF tid = NoneId \/ tid = 0
    THEN tracks[1]
    ELSE IF \E i \in 1..Len(tracks) : tracks[i] = tid THEN tid ELSE NoneId

\* subtitle_tracks[0] if track_id is None, else
\* next((t for t in subtitle_tracks if t['id'] == track_id), None)
select_track(tracks, tid) ==
    IF tid = NoneId
    THEN tracks[1]
    ELSE IF \E i \in 1..Len(tracks) : tracks[i] = tid THEN tid ELSE NoneId

NeedsConversion_Always(format) == TRUE

\* subtitle_format != 'ass'
NeedsConversion(format) == format # "ass"

\* what the style file named by the argument holds
StyleFiles == {"", "style.json", "nostyle.json", "invalid.json", "missing.json"}

\* config.get('subtitle_style', {}), or {} when open() or json.load() raises
load_style_config(config_file) ==
    IF config_file = "style.json" THEN VerdanaConfig ELSE EmptyConfig

\* truth value of a dictionary
Truthy(cfg) == DOMAIN cfg # {}

\* final_style_config after lines 251-258
ResolveStyle(config_file, inline) ==
    IF config_file # ""
    THEN load_style_config(config_file)
    ELSE IF Truthy(inline) THEN inline ELSE EmptyConfig

\* self.aegisub_path is not None
is_available(path) == path # "None"

TakesManualPath_FlagOnly(manual, available) == manual

\* manual_styling and self.aegisub_processor.is_available()
TakesManualPath(manual, available) == manual /\ available

\* the branch of the if / elif of lines 261-268
StyleBranch(manual, available, cfg) ==
    IF TakesManualPath(manual, available)
    THEN "editor"
    ELSE IF Truthy(cfg) THEN "patcher" ELSE "none"

AfterHandOff_NoWait == "Merge"

\* after open_for_styling the run is inside input(), line 265
AfterHandOff == "AwaitConfirmation"

create_temp_directory_FixedName(names, fs) == {1}

\* FileManager.create_temp_directory: the directories tempfile.mkdtemp can
\* create, any name that does not exist yet
create_temp_directory(names, fs) == names \ fs

validate_file_exists_Always(isfile) == TRUE

\* FileManager.validate_file_exists: os.path.isfile(file_path)
validate_file_exists(isfile) == isfile

cleanup_temp_directory_KeepsDirectory(dir, fs, rm_ok) ==
    IF dir # NoDir /\ dir \in fs
    THEN [temp_dir |-> NoDir, fs |-> fs,
          out |-> IF rm_ok THEN "removed" ELSE "failed"]
    ELSE [temp_dir |-> dir, fs |-> fs, out |-> "skipped"]

\* FileManager.cleanup_temp_directory: the reference and the directories left,
\* and what happened; rm_ok is false when shutil.rmtree raises
cleanup_temp_directory(dir, fs, rm_ok) ==
    IF dir # NoDir /\ dir \in fs
    THEN [temp_dir |-> NoDir,
          fs |-> IF rm_ok THEN fs \ {dir} ELSE fs,
          out |-> IF rm_ok THEN "removed" ELSE "failed"]
    ELSE [temp_dir |-> dir, fs |-> fs, out |-> "skipped"]

(***************************************************************************)
(* Idle values of the variables a specification does not use               *)
(***************************************************************************)
IdlePatch ==
    /\ ass_file = <<>>
    /\ prev_file = <<>>
    /\ patch_result = "none"
    /\ patch_calls = 0
    /\ io_error = FALSE

IdleStyle ==
    /\ style_name = "Default"
    /\ style_line = <<>>

IdleDetect ==
    /\ sub_content = <<>>
    /\ sub_readable = TRUE
    /\ detected = "none"

IdleFactory ==
    /\ processors = NewFactory
    /\ reg_log = <<"MKVProcessor">>
    /\ file_path = <<>>
    /\ lookup = "none"
    /\ can = "none"

IdlePipeline ==
    /\ pc = "idle"
    /\ track_id = NoneId
    /\ style_config_file = ""
    /\ manual_styling = FALSE
    /\ output_video = <<>>
    /\ aegisub_path = "None"
    /\ subtitle_tracks = <<>>
    /\ selected_track = NoneId
    /\ final_style_config = EmptyConfig
    /\ temp_dir = NoDir
    /\ fs_dirs = {}
    /\ stages = <<>>
    /\ calls = <<>>
    /\ exc = "none"
    /\ result = "none"
    /\ runs = 0

IdleRuns ==
    /\ run_pc = [r \in 1..MaxWorkspaces |-> "new"]
    /\ run_temp_dir = [r \in 1..MaxWorkspaces |-> NoDir]
    /\ shared_dirs = {}

IdleReplace ==
    /\ br_pc = "idle"
    /\ br_files = [original |-> "none", processed |-> "none", backups |-> <<>>]
    /\ br_backup = 0 - 1
    /\ br_result = "none"

IdleGui ==
    /\ listbox = <<>>
    /\ processing_active = FALSE
    /\ process_btn = "disabled"
    /\ progress_bar = "stopped"
    /\ progress_var = "Ready"
    /\ after_queue = <<>>
    /\ workers = <<>>
    /\ asking = FALSE
    /\ files_to_process = <<>>
    /\ thread = "main"

(***************************************************************************)
(* Specification of the Style Patcher: a file, a style dictionary, and     *)
(* successive calls of apply_styling_from_config on the file               *)
(***************************************************************************)
InitPatch ==
    /\ ass_file \in Documents
    /\ style_config \in PatchConfigs
    /\ prev_file = ass_file
    /\ patch_result = "none"
    /\ patch_calls = 0
    /\ io_error = FALSE
    /\ IdleStyle /\ IdleDetect /\ IdleFactory /\ IdlePipeline
    /\ IdleRuns /\ IdleReplace /\ IdleGui

ApplyStyling ==
    /\ patch_calls < MaxApplies
    /\ \E io_ok \in BOOLEAN :
          LET r == apply_styling_from_config(ass_file, style_config, io_ok)
          IN  /\ ass_file' = r.lines
              /\ patch_result' = r.ret
              /\ io_error' = ~io_ok
              /\ prev_file' = IF io_ok THEN ass_file ELSE prev_file
              /\ patch_calls' = IF io_ok THEN patch_calls + 1 ELSE patch_calls
    /\ UNCHANGED <<style_config, styleVars, detectVars, factoryVars, pipeVars, runVars,
                   replaceVars, guiVars>>

NextPatch == ApplyStyling

SpecPatch == InitPatch /\ [][NextPatch]_vars

(***************************************************************************)
(* Specification of style-line synthesis: a style dictionary, a style      *)
(* name, and a call of create_ass_style_line                               *)
(***************************************************************************)
ConfigValues == {StrV("Verdana"), IntV(24), StrV("&H0000FFFF")}

StyleConfigs ==
    UNION {[S -> ConfigValues] :
              S \in {T \in SUBSET StyleKeys : Cardinality(T) <= MaxCfgKeys}}

StyleNames == {"Default", "Title"}

InitStyle ==
    /\ style_config \in StyleConfigs
    /\ style_name \in StyleNames
    /\ style_line = <<>>
    /\ IdlePatch /\ IdleDetect /\ IdleFactory /\ IdlePipeline
    /\ IdleRuns /\ IdleReplace /\ IdleGui

CreateStyleLine ==
    /\ style_line = <<>>
    /\ style_line' = create_ass_style_line(style_config, style_name)
    /\ UNCHANGED <<style_config, style_name, patchVars, detectVars, factoryVars,
                   pipeVars, runVars,
                   replaceVars, guiVars>>

NextStyle == CreateStyleLine

SpecStyle == InitStyle /\ [][NextStyle]_vars

(***************************************************************************)
(* Specification of format detection: a subtitle file and a call of        *)
(* detect_subtitle_format                                                  *)
(***************************************************************************)
InitDetect ==
    /\ sub_content \in SeqsUpTo(ContentTokens, MaxContent)
    /\ sub_readable \in BOOLEAN
    /\ detected = "none"
    /\ style_config = EmptyConfig
    /\ IdlePatch /\ IdleStyle /\ IdleFactory /\ IdlePipeline
    /\ IdleRuns /\ IdleReplace /\ IdleGui

DetectFormat ==
    /\ detected' = detect_subtitle_format(sub_content, sub_readable)
    /\ UNCHANGED <<sub_content, sub_readable, style_config, patchVars, styleVars,
                   factoryVars, pipeVars, runVars,
                   replaceVars, guiVars>>

NextDetect == DetectFormat

SpecDetect == InitDetect /\ [][NextDetect]_vars

(***************************************************************************)
(* Specification of the Format Dispatcher: a factory after construction, a *)
(* path, and calls of register_processor, get_processor and can_process    *)
(***************************************************************************)
InitFactory ==
    /\ processors = NewFactory
    /\ reg_log = <<"MKVProcessor">>
    /\ file_path \in SeqsUpTo(PathChars, MaxPath)
    /\ lookup = "none"
    /\ can = "none"
    /\ style_config = EmptyConfig
    /\ IdlePatch /\ IdleStyle /\ IdleDetect /\ IdlePipeline
    /\ IdleRuns /\ IdleReplace /\ IdleGui

RegisterProcessor ==
    /\ Len(reg_log) <= MaxRegs
    /\ \E processor \in Processors :
          /\ processors' = register_processor(processors, processor)
          /\ reg_log' = Append(reg_log, processor)
    /\ lookup' = "none"
    /\ can' = "none"
    /\ UNCHANGED <<file_path, style_config, patchVars, styleVars, detectVars,
                   pipeVars, runVars,
                   replaceVars, guiVars>>

GetProcessor ==
    /\ lookup' = get_processor(processors, file_path)
    /\ can' = "none"
    /\ UNCHANGED <<processors, reg_log, file_path, style_config, patchVars, styleVars,
                   detectVars, pipeVars, runVars,
                   replaceVars, guiVars>>

CanProcess ==
    /\ lookup' = get_processor(processors, file_path)
    /\ can' = can_process(processors, file_path)
    /\ UNCHANGED <<processors, reg_log, file_path, style_config, patchVars, styleVars,
                   detectVars, pipeVars, runVars,
                   replaceVars, guiVars>>

NextFactory == RegisterProcessor \/ GetProcessor \/ CanProcess

SpecFactory == InitFactory /\ [][NextFactory]_vars

(***************************************************************************)
(* Specification of the pipeline: an orchestrator after construction and   *)
(* successive runs of process_video_file, one action per stage.  What the  *)
(* file system, the external tools and the operator do is chosen when the  *)
(* stage that meets it runs.                                               *)
(***************************************************************************)
PipelinePaths == {<<"m", ".", "m", "k", "v">>, <<"m", ".", "m", "k">>}

GivenOutput == <<"o", ".", "m", "k", "v">>

TrackIds == {0, 2}

\* the id lists mkvmerge -J can report: ids are unique within a file
TrackLists == {t \in SeqsUpTo(TrackIds, MaxTracks) :
                  \A i, j \in 1..Len(t) : t[i] = t[j] => i = j}

\* ASS files as the patcher reads them
PipelineDocs == {<<HDR, FMT, OLDDEF>>, <<EVENTS>>}

\* what mkvextract can write: the first characters of the file, as
\* detect_subtitle_format reads them, and its lines
ExtractedFiles ==
    {[content |-> <<ScriptInfo>>, lines |-> doc] : doc \in PipelineDocs}
        \cup {[content |-> <<Index, "\n", SrtTiming>>,
               lines |-> <<<<Index>>, <<SrtTiming>>, <<Text>>>>],
              [content |-> <<WebVTT>>,
               lines |-> <<<<WebVTT>>, <<VttTiming>>, <<Text>>>>]}

Bool(b) == IF b THEN "True" ELSE "False"

\* a logged call: the method, the track id it was given (NoneId if it takes
\* none) and its outcome
CallOn(op, track, out) == [op |-> op, track |-> track, out |-> out]

Call(op, out) == CallOn(op, NoneId, out)

argVars   == <<file_path, track_id, style_config, style_config_file, manual_styling>>
hostVars  == <<aegisub_path, processors, runs, patch_result, patch_calls, io_error,
               style_name, style_line, reg_log, lookup, can,
               runVars, replaceVars, guiVars>>
localVars == <<subtitle_tracks, selected_track, final_style_config>>
fileVars  == <<ass_file, prev_file, sub_content, sub_readable, detected>>
wsVars    == <<temp_dir, fs_dirs>>

Return_Retries(value) == pc' = pc /\ result' = result /\ exc' = exc

\* a return statement inside the try block: the finally block runs next
Return(value) == pc' = "Cleanup" /\ result' = value /\ exc' = exc

\* an exception raised inside the try block
Raise(kind) == pc' = "except" /\ exc' = kind /\ result' = result

\* the stage falls through to the next statements
Advance(stage) == pc' = NextStage(stage) /\ result' = result /\ exc' = exc

Enter(stage, log) == stages' = Append(stages, stage) /\ calls' = calls \o log

InitPipeline ==
    /\ pc = "idle"
    /\ aegisub_path \in {"None", "aegisub"}
    /\ track_id = NoneId
    /\ style_config_file = ""
    /\ manual_styling = FALSE
    /\ output_video = <<>>
    /\ subtitle_tracks = <<>>
    /\ selected_track = NoneId
    /\ final_style_config = EmptyConfig
    /\ temp_dir = NoDir
    /\ fs_dirs = {}
    /\ stages = <<>>
    /\ calls = <<>>
    /\ exc = "none"
    /\ result = "none"
    /\ runs = 0
    /\ style_config = EmptyConfig
    /\ IdlePatch /\ IdleStyle /\ IdleDetect /\ IdleFactory
    /\ IdleRuns /\ IdleReplace /\ IdleGui

\* a caller invokes process_video_file
StartRun ==
    /\ pc = "idle"
    /\ runs < MaxRuns
    /\ pc' = "Validate"
    /\ file_path' \in PipelinePaths
    /\ output_video' \in {<<>>, GivenOutput}
    /\ track_id' \in {NoneId} \cup TrackIds
    /\ style_config' \in PatchConfigs
    /\ style_config_file' \in StyleFiles
    /\ manual_styling' \in BOOLEAN
    /\ UNCHANGED <<hostVars, localVars, fileVars, wsVars, stages, calls, exc, result>>

Validate ==
    /\ pc = "Validate"
    /\ \E exists \in BOOLEAN :
          /\ Enter("Validate", <<Call("validate_file_exists", Bool(exists))>>)
          /\ IF validate_file_exists(exists)
             THEN Advance("Validate")
             ELSE Return("False")
    /\ UNCHANGED <<argVars, hostVars, localVars, fileVars, wsVars, output_video>>

ToolCheck ==
    /\ pc = "ToolCheck"
    /\ \E tools_status \in [RegisteredProcessors(processors) -> BOOLEAN] :
          /\ Enter("ToolCheck",
                   <<Call("check_tools_available", Bool(AnyTool(tools_status)))>>)
          /\ IF AnyTool(tools_status) THEN Advance("ToolCheck") ELSE Return("False")
    /\ UNCHANGED <<argVars, hostVars, localVars, fileVars, wsVars, output_video>>

FormatCheck ==
    /\ pc = "FormatCheck"
    /\ Enter("FormatCheck", <<>>)
    /\ IF can_process(processors, file_path) = "True"
       THEN Advance("FormatCheck")
       ELSE Return("False")
    /\ UNCHANGED <<argVars, hostVars, localVars, fileVars, wsVars, output_video>>

Setup ==
    /\ pc = "Setup"
    /\ \/ \* tempfile.mkdtemp raises
          /\ Enter("Setup", <<Call("create_temp_directory", "raised")>>)
          /\ Raise("OSError")
          /\ UNCHANGED <<wsVars, output_video>>
       \/ \E dir \in create_temp_directory(1..MaxRuns, fs_dirs) :
             /\ Enter("Setup", <<Call("create_temp_directory", "created")>>)
             /\ temp_dir' = dir
             /\ fs_dirs' = fs_dirs \cup {dir}
             /\ output_video' = IF output_video = <<>>
                                THEN generate_output_path(file_path)
                                ELSE output_video
             /\ Advance("Setup")
    /\ UNCHANGED <<argVars, hostVars, localVars, fileVars>>

Analyze ==
    /\ pc = "Analyze"
    /\ IF get_processor(processors, file_path) = "None"
       THEN /\ Enter("Analyze", <<Call("get_subtitle_tracks", "raised")>>)
            /\ Raise("ValueError")
            /\ UNCHANGED subtitle_tracks
       ELSE \/ \* mkvmerge -J exits non-zero: get_track_info re-raises
               /\ Enter("Analyze", <<Call("get_subtitle_tracks", "raised")>>)
               /\ Raise("CalledProcessError")
               /\ UNCHANGED subtitle_tracks
            \/ \E tracks \in TrackLists :
                  /\ subtitle_tracks' = tracks
                  /\ Enter("Analyze",
                           <<Call("get_subtitle_tracks",
                                  IF tracks = <<>> THEN "empty" ELSE "tracks")>>)
                  /\ IF tracks = <<>> THEN Return("False") ELSE Advance("Analyze")
    /\ UNCHANGED <<argVars, hostVars, selected_track, final_style_config, fileVars,
                   wsVars, output_video>>

TrackSelect ==
    /\ pc = "TrackSelect"
    /\ Enter("TrackSelect", <<>>)
    /\ selected_track' = select_track(subtitle_tracks, track_id)
    /\ IF select_track(subtitle_tracks, track_id) = NoneId
       THEN Return("False")
       ELSE Advance("TrackSelect")
    /\ UNCHANGED <<argVars, hostVars, subtitle_tracks, final_style_config, fileVars,
                   wsVars, output_video>>

Extract ==
    /\ pc = "Extract"
    /\ \/ \* mkvextract exits zero
          /\ \E file \in ExtractedFiles :
                /\ sub_content' = file.content
                /\ ass_file' = file.lines
                /\ prev_file' = file.lines
          /\ Enter("Extract",
                   <<CallOn("extract_subtitle_track", selected_track, "True")>>)
          /\ Advance("Extract")
          /\ UNCHANGED <<sub_readable, detected>>
       \/ \* mkvextract exits non-zero: CalledProcessError is turned into False
          /\ Enter("Extract",
                   <<CallOn("extract_subtitle_track", selected_track, "False")>>)
          /\ Return("False")
          /\ UNCHANGED fileVars
       \/ \* mkvextract cannot be started
          /\ Enter("Extract",
                   <<CallOn("extract_subtitle_track", selected_track, "raised")>>)
          /\ Raise("FileNotFoundError")
          /\ UNCHANGED fileVars
    /\ UNCHANGED <<argVars, hostVars, localVars, wsVars, output_video>>

ConvertIfNeeded ==
    /\ pc = "ConvertIfNeeded"
    /\ LET format == detect_subtitle_format(sub_content, sub_readable)
       IN  /\ detected' = format
           /\ IF NeedsConversion(format)
              THEN \/ \* ffmpeg writes converted.ass
                      /\ \E doc \in PipelineDocs :
                            ass_file' = doc /\ prev_file' = doc
                      /\ Enter("ConvertIfNeeded", <<Call("convert_to_ass", "True")>>)
                      /\ Advance("ConvertIfNeeded")
                   \/ \* ffmpeg fails or is missing
                      /\ Enter("ConvertIfNeeded", <<Call("convert_to_ass", "False")>>)
                      /\ Return("False")
                      /\ UNCHANGED <<ass_file, prev_file>>
              ELSE /\ Enter("ConvertIfNeeded", <<>>)
                   /\ Advance("ConvertIfNeeded")
                   /\ UNCHANGED <<ass_file, prev_file>>
    /\ UNCHANGED <<argVars, hostVars, localVars, sub_content, sub_readable, wsVars,
                   output_video>>

Style ==
    /\ pc = "Style"
    /\ LET cfg    == ResolveStyle(style_config_file, style_config)
           branch == StyleBranch(manual_styling, is_available(aegisub_path), cfg)
           loaded == IF style_config_file # ""
                     THEN <<Call("load_style_config",
                                 IF Truthy(cfg) THEN "loaded" ELSE "empty")>>
                     ELSE <<>>
       IN  /\ final_style_config' = cfg
           /\ IF branch = "editor"
              THEN \* Aegisub is started, then input() blocks
                   /\ Enter("Style", loaded \o <<Call("open_for_styling", "called")>>)
                   /\ pc' = AfterHandOff
                   /\ UNCHANGED <<ass_file, result, exc>>
              ELSE IF branch = "patcher"
              THEN \E io_ok \in BOOLEAN :
                      LET r == apply_styling_from_config(ass_file, cfg, io_ok)
                      IN  /\ ass_file' = r.lines
                          /\ Enter("Style",
                                   loaded \o <<Call("apply_styling_from_config", r.ret)>>)
                          /\ Advance("Style")
              ELSE /\ Enter("Style", loaded)
                   /\ Advance("Style")
                   /\ UNCHANGED ass_file
    /\ UNCHANGED <<argVars, hostVars, subtitle_tracks, selected_track, prev_file,
                   sub_content, sub_readable, detected, wsVars, output_video>>

\* the operator, having edited the file, presses Enter: input() returns
Confirm ==
    /\ pc = "AwaitConfirmation"
    /\ \E edited \in PipelineDocs : ass_file' = edited
    /\ calls' = Append(calls, Call("input", "returned"))
    /\ Advance("Style")
    /\ UNCHANGED <<argVars, hostVars, localVars, prev_file, sub_content, sub_readable,
                   detected, wsVars, output_video, stages>>

\* standard input is at end of file: input() raises EOFError
StdinClosed ==
    /\ pc = "AwaitConfirmation"
    /\ calls' = Append(calls, Call("input", "raised"))
    /\ Raise("EOFError")
    /\ UNCHANGED <<argVars, hostVars, localVars, fileVars, wsVars, output_video, stages>>

Merge ==
    /\ pc = "Merge"
    /\ \/ \E success \in {"True", "False"} :
             /\ Enter("Merge", <<Call("merge_video_with_subtitles", success)>>)
             /\ Return(success)
       \/ \* mkvmerge cannot be started
          /\ Enter("Merge", <<Call("merge_video_with_subtitles", "raised")>>)
          /\ Raise("FileNotFoundError")
    /\ UNCHANGED <<argVars, hostVars, localVars, fileVars, wsVars, output_video>>

Except_ReturnsTrue ==
    /\ pc = "except"
    /\ result' = "True"
    /\ pc' = "Cleanup"
    /\ UNCHANGED <<argVars, hostVars, localVars, fileVars, wsVars, output_video,
                   stages, calls, exc>>

\* the except clause of the try block
Except ==
    /\ pc = "except"
    /\ result' = IF Caught(exc) THEN "False" ELSE "raised"
    /\ pc' = "Cleanup"
    /\ UNCHANGED <<argVars, hostVars, localVars, fileVars, wsVars, output_video,
                   stages, calls, exc>>

\* the finally block
Cleanup ==
    /\ pc = "Cleanup"
    /\ \E rm_ok \in BOOLEAN :
          LET r == cleanup_temp_directory(temp_dir, fs_dirs, rm_ok)
          IN  /\ temp_dir' = r.temp_dir
              /\ fs_dirs' = r.fs
              /\ Enter("Cleanup", <<Call("cleanup_temp_directory", r.out)>>)
    /\ pc' = "done"
    /\ UNCHANGED <<argVars, hostVars, localVars, fileVars, output_video, result, exc>>

\* the caller has the result; arguments and locals of the call are gone
ReturnToCaller ==
    /\ pc = "done"
    /\ pc' = "idle"
    /\ runs' = runs + 1
    /\ file_path' = <<>>
    /\ track_id' = NoneId
    /\ style_config' = EmptyConfig
    /\ style_config_file' = ""
    /\ manual_styling' = FALSE
    /\ output_video' = <<>>
    /\ subtitle_tracks' = <<>>
    /\ selected_track' = NoneId
    /\ final_style_config' = EmptyConfig
    /\ ass_file' = <<>>
    /\ prev_file' = <<>>
    /\ sub_content' = <<>>
    /\ detected' = "none"
    /\ stages' = <<>>
    /\ calls' = <<>>
    /\ exc' = "none"
    /\ result' = "none"
    /\ UNCHANGED <<aegisub_path, processors, patch_result, patch_calls, io_error,
                   style_name, style_line, reg_log, lookup, can, sub_readable, wsVars,
                   runVars, replaceVars, guiVars>>

\* something else removes the workspace of the run in progress
WorkspaceVanishes ==
    /\ pc \notin {"idle", "done"}
    /\ temp_dir \in fs_dirs
    /\ fs_dirs' = fs_dirs \ {temp_dir}
    /\ UNCHANGED <<argVars, hostVars, localVars, fileVars, temp_dir, output_video,
                   stages, calls, pc, exc, result>>

NextPipeline ==
    \/ StartRun \/ Validate \/ ToolCheck \/ FormatCheck \/ Setup \/ Analyze
    \/ TrackSelect \/ Extract \/ ConvertIfNeeded \/ Style \/ Confirm \/ StdinClosed
    \/ Merge \/ Except \/ Cleanup \/ ReturnToCaller \/ WorkspaceVanishes

SpecPipeline == InitPipeline /\ [][NextPipeline]_vars

(***************************************************************************)
(* Specification of runs side by side: every run is made on an             *)
(* orchestrator of its own (main.py line 407, gui.py line 557), so each    *)
(* has its own FileManager; the runs share the file system and interleave  *)
(* in any order, one after the other included.                             *)
(***************************************************************************)
coreVars == <<patchVars, style_config, styleVars, detectVars, factoryVars, pipeVars>>

RunIds == 1..MaxWorkspaces

IdleCore ==
    /\ style_config = EmptyConfig
    /\ IdlePatch /\ IdleStyle /\ IdleDetect /\ IdleFactory /\ IdlePipeline

InitWorkspaces ==
    /\ run_pc = [r \in RunIds |-> "new"]
    /\ run_temp_dir = [r \in RunIds |-> NoDir]
    /\ shared_dirs = {}
    /\ IdleCore /\ IdleReplace /\ IdleGui

\* the run returns before Setup (Validate, ToolCheck or FormatCheck failed)
RunFailsEarly(r) ==
    /\ run_pc[r] = "new"
    /\ run_pc' = [run_pc EXCEPT ![r] = "finally"]
    /\ UNCHANGED <<run_temp_dir, shared_dirs, coreVars, replaceVars, guiVars>>

\* Setup: create_temp_directory
RunSetup(r) ==
    /\ run_pc[r] = "new"
    /\ \E dir \in create_temp_directory(RunIds, shared_dirs) :
          /\ run_temp_dir' = [run_temp_dir EXCEPT ![r] = dir]
          /\ shared_dirs' = shared_dirs \cup {dir}
    /\ run_pc' = [run_pc EXCEPT ![r] = "working"]
    /\ UNCHANGED <<coreVars, replaceVars, guiVars>>

\* the stages after Setup end, with a result or an exception
RunLeavesTry(r) ==
    /\ run_pc[r] = "working"
    /\ run_pc' = [run_pc EXCEPT ![r] = "finally"]
    /\ UNCHANGED <<run_temp_dir, shared_dirs, coreVars, replaceVars, guiVars>>

\* the finally block: cleanup_temp_directory on the run's own FileManager
RunCleanup(r) ==
    /\ run_pc[r] = "finally"
    /\ \E rm_ok \in BOOLEAN :
          LET c == cleanup_temp_directory(run_temp_dir[r], shared_dirs, rm_ok)
          IN  /\ run_temp_dir' = [run_temp_dir EXCEPT ![r] = c.temp_dir]
              /\ shared_dirs' = c.fs
    /\ run_pc' = [run_pc EXCEPT ![r] = "done"]
    /\ UNCHANGED <<coreVars, replaceVars, guiVars>>

NextWorkspaces ==
    \E r \in RunIds :
        RunFailsEarly(r) \/ RunSetup(r) \/ RunLeavesTry(r) \/ RunCleanup(r)

SpecWorkspaces == InitWorkspaces /\ [][NextWorkspaces]_vars

(***************************************************************************)
(* FileManager.backup_and_replace_file.  The files are the original, the   *)
(* processed file and the backups under _backups: backup 0 is              *)
(* <stem>_original<suffix>, backup k is <stem>_original_<k><suffix>.  A    *)
(* file is its content, "none" where there is no file.                     *)
(***************************************************************************)
NoBackup == 0 - 1

BackupNames == 0..MaxBackups

\* the while loop of lines 452-456: the first backup name that is free
backup_slot_First(backups) == 0

backup_slot(backups) ==
    CHOOSE k \in BackupNames :
        /\ backups[k] = "none"
        /\ \A j \in 0..(k - 1) : backups[j] # "none"

MoveToBackup_Copy(files, k) == [files EXCEPT !.backups[k] = files.original]

\* shutil.move(str(original_path), str(backup_path)), line 460
MoveToBackup(files, k) ==
    [files EXCEPT !.backups[k] = files.original, !.original = "none"]

\* shutil.move(str(processed_path), str(original_path)), line 464
MoveToOriginal(files) ==
    [files EXCEPT !.original = files.processed, !.processed = "none"]

\* 'backup_path' in locals() and backup_path.exists() and not original_path.exists()
RestoreNeeded(files, k) ==
    /\ k # NoBackup
    /\ files.backups[k] # "none"
    /\ files.original = "none"

\* shutil.move(str(backup_path), str(original_path)), line 476
MoveBack(files, k) ==
    [files EXCEPT !.original = files.backups[k], !.backups[k] = "none"]

(***************************************************************************)
(* Specification of file replacement: an original file, a processed file   *)
(* that may be missing, earlier backups, and one call, which the process   *)
(* may not survive                                                         *)
(***************************************************************************)
EarlierBackups ==
    {[k \in BackupNames |-> IF k \in taken THEN "OLD" ELSE "none"] :
        taken \in SUBSET (0..(MaxBackups - 1))}

InitReplace ==
    /\ br_pc = "start"
    /\ \E processed \in {"PROCESSED", "none"}, backups \in EarlierBackups :
          br_files = [original |-> "ORIGINAL", processed |-> processed,
                      backups |-> backups]
    /\ br_backup = NoBackup
    /\ br_result = "none"
    /\ IdleCore /\ IdleRuns /\ IdleGui

\* ensure_directory_exists(backup_dir), lines 444-446
EnsureBackupDir ==
    /\ br_pc = "start"
    /\ \E made \in BOOLEAN :
          IF made
          THEN br_pc' = "name" /\ br_result' = br_result
          ELSE br_pc' = "done" /\ br_result' = "False"
    /\ UNCHANGED <<br_files, br_backup, coreVars, runVars, guiVars>>

\* lines 449-456
ChooseBackupName ==
    /\ br_pc = "name"
    /\ br_backup' = backup_slot(br_files.backups)
    /\ br_pc' = "move1"
    /\ UNCHANGED <<br_files, br_result, coreVars, runVars, guiVars>>

\* step 1, line 460: the move succeeds, or raises and moves nothing
MoveOriginal ==
    /\ br_pc = "move1"
    /\ \/ br_files' = MoveToBackup(br_files, br_backup) /\ br_pc' = "move2"
       \/ br_files' = br_files /\ br_pc' = "except1"
    /\ UNCHANGED <<br_backup, br_result, coreVars, runVars, guiVars>>

\* step 2, line 464: the move succeeds; or raises and moves nothing (always
\* so when there is no processed file); or, across file systems, raises
\* after part of the copy was written to the original path
MoveProcessed ==
    /\ br_pc = "move2"
    /\ \/ /\ br_files.processed # "none"
          /\ br_files' = MoveToOriginal(br_files)
          /\ br_pc' = "done"
          /\ br_result' = "True"
       \/ /\ br_files' = br_files
          /\ br_pc' = "except2"
          /\ br_result' = br_result
       \/ /\ br_files.processed # "none"
          /\ br_files' = [br_files EXCEPT !.original = "PARTIAL"]
          /\ br_pc' = "except2"
          /\ br_result' = br_result
    /\ UNCHANGED <<br_backup, coreVars, runVars, guiVars>>

\* the except clause, lines 470-482: the restore is attempted when needed
\* and may itself raise, which is logged
HandleFailure ==
    /\ br_pc \in {"except1", "except2"}
    /\ IF RestoreNeeded(br_files, br_backup)
       THEN \/ br_files' = MoveBack(br_files, br_backup)
            \/ br_files' = br_files
       ELSE br_files' = br_files
    /\ br_pc' = "done"
    /\ br_result' = "False"
    /\ UNCHANGED <<br_backup, coreVars, runVars, guiVars>>

\* the process dies in the middle of the call
Crash ==
    /\ br_pc \in {"name", "move1", "move2", "except1", "except2"}
    /\ br_pc' = "crashed"
    /\ UNCHANGED <<br_files, br_backup, br_result, coreVars, runVars, guiVars>>

NextReplace ==
    \/ EnsureBackupDir \/ ChooseBackupName \/ MoveOriginal \/ MoveProcessed
    \/ HandleFailure \/ Crash

SpecReplace == InitReplace /\ [][NextReplace]_vars

(***************************************************************************)
(* SubtitleProcessorGUI: the queue, the batch worker and root.after.       *)
(* A progress text is a tag; a callback scheduled with root.after is a     *)
(* record naming what it does and the worker that scheduled it.            *)
(***************************************************************************)
\* update_ui_state: the state of the Start Processing button
update_ui_state(lb, active) ==
    IF Len(lb) > 0 /\ ~active THEN "normal" ELSE "disabled"

InQueue(lb) == {lb[k] : k \in DOMAIN lb}

\* add_file_to_queue: duplicates are not added
add_file_to_queue(lb, f) == IF f \in InQueue(lb) THEN lb ELSE Append(lb, f)

\* the loop of handle_drop over the dropped paths
RECURSIVE add_files(_, _)
add_files(lb, paths) ==
    IF paths = <<>> THEN lb
    ELSE add_files(add_file_to_queue(lb, Head(paths)), Tail(paths))

MayStart_Always(active) == TRUE

\* 'if self.processing_active: return', line 483
MayStart(active) == ~active

\* threading.Thread(target=self.process_files_thread, args=(files_to_process,))
NewWorker(files) ==
    [pc |-> "next", files |-> files, i |-> 0, processed |-> 0, failed |-> 0,
     done |-> <<>>, finished |-> FALSE]

\* self.root.after(0, callback)
root_after(q, cb) == Append(q, cb)

SetText(text) == [cb |-> "set_text", text |-> text, w |-> 0]

schedule_finished_Never(q, w) == q

\* the finally clause, line 597
schedule_finished(q, w) ==
    root_after(q, [cb |-> "processing_finished", text |-> "", w |-> w])

Count_IgnoresRaise(worker, outcome) ==
    CASE outcome = "True"  -> [worker EXCEPT !.processed = @ + 1]
      [] outcome = "False" -> [worker EXCEPT !.failed = @ + 1]
      [] OTHER -> worker

\* lines 566-584: one of the two counters is incremented for every file
Count(worker, outcome) ==
    IF outcome = "True"
    THEN [worker EXCEPT !.processed = @ + 1]
    ELSE [worker EXCEPT !.failed = @ + 1]

\* the text scheduled for the file
OutcomeText(outcome) ==
    CASE outcome = "True"  -> "Completed"
      [] outcome = "False" -> "Failed"
      [] OTHER -> "Error"

(***************************************************************************)
(* Specification of the GUI: drops, Clear Queue, Start Processing with its *)
(* confirmation dialog, the callbacks run by the event loop, and the steps *)
(* of the worker threads                                                   *)
(***************************************************************************)
GuiFiles == 1..MaxFiles

DropPaths ==
    {<<f>> : f \in GuiFiles}
        \cup {<<f, g>> : f \in GuiFiles, g \in GuiFiles}

PipelineOutcomes == {"True", "False", "raises"}

InitGui == IdleGui /\ IdleCore /\ IdleRuns /\ IdleReplace

\* lines 504-514
Launch(files) ==
    /\ processing_active' = TRUE
    /\ progress_bar' = "running"
    /\ process_btn' = update_ui_state(listbox, TRUE)
    /\ workers' = Append(workers, NewWorker(files))

\* handle_drop; drops are delivered also while a dialog is open
Drop ==
    /\ \E paths \in DropPaths :
          /\ listbox' = add_files(listbox, paths)
          /\ progress_var' = IF listbox' # listbox THEN "Added" ELSE progress_var
    /\ process_btn' = update_ui_state(listbox', processing_active)
    /\ thread' = "main"
    /\ UNCHANGED <<processing_active, progress_bar, after_queue, workers, asking,
                   files_to_process, coreVars, runVars, replaceVars>>

\* clear_queue
ClearQueue ==
    /\ ~asking
    /\ listbox' = <<>>
    /\ progress_var' = "Queue cleared"
    /\ process_btn' = update_ui_state(listbox', processing_active)
    /\ thread' = "main"
    /\ UNCHANGED <<processing_active, progress_bar, after_queue, workers, asking,
                   files_to_process, coreVars, runVars, replaceVars>>

\* start_processing up to the launch or the askyesno dialog
StartProcessing ==
    /\ ~asking
    /\ processing_active \/ Len(workers) < MaxBatches
    /\ thread' = "main"
    /\ IF ~MayStart(processing_active) \/ listbox = <<>>
       THEN UNCHANGED <<processing_active, progress_bar, process_btn, workers,
                        asking, files_to_process>>
       ELSE \E configured \in BOOLEAN :
               IF configured
               THEN Launch(listbox) /\ UNCHANGED <<asking, files_to_process>>
               ELSE /\ asking' = TRUE
                    /\ files_to_process' = listbox
                    /\ UNCHANGED <<processing_active, progress_bar, process_btn,
                                   workers>>
    /\ UNCHANGED <<listbox, progress_var, after_queue, coreVars, runVars,
                   replaceVars>>

\* the answer to askyesno, lines 499-514
AnswerDialog ==
    /\ asking
    /\ asking' = FALSE
    /\ files_to_process' = <<>>
    /\ thread' = "main"
    /\ \E yes \in BOOLEAN :
          IF yes
          THEN Launch(files_to_process)
          ELSE UNCHANGED <<processing_active, progress_bar, process_btn, workers>>
    /\ UNCHANGED <<listbox, progress_var, after_queue, coreVars, runVars,
                   replaceVars>>

\* the event loop runs the oldest callback: a progress text, or
\* processing_finished
RunCallback ==
    /\ after_queue # <<>>
    /\ after_queue' = Tail(after_queue)
    /\ thread' = "main"
    /\ IF Head(after_queue).cb = "set_text"
       THEN /\ progress_var' = Head(after_queue).text
            /\ UNCHANGED <<processing_active, progress_bar, process_btn, workers>>
       ELSE /\ processing_active' = FALSE
            /\ progress_bar' = "stopped"
            /\ process_btn' = update_ui_state(listbox, FALSE)
            /\ workers' = [workers EXCEPT ![Head(after_queue).w].finished = TRUE]
            /\ UNCHANGED progress_var
    /\ UNCHANGED <<listbox, asking, files_to_process, coreVars, runVars,
                   replaceVars>>

\* what no step of a worker thread assigns
WorkerFrame ==
    /\ thread' = "worker"
    /\ UNCHANGED <<listbox, processing_active, process_btn, progress_bar,
                   progress_var, asking, files_to_process, coreVars, runVars,
                   replaceVars>>

\* the head of the loop, lines 541-544
WorkerNext ==
    /\ \E w \in DOMAIN workers :
          /\ workers[w].pc = "next"
          /\ workers[w].i < Len(workers[w].files)
          /\ after_queue' = root_after(after_queue, SetText("Processing"))
          /\ workers' = [workers EXCEPT ![w].pc = "run"]
    /\ WorkerFrame

\* the body of the loop, lines 546-584: the pipeline run returns True or
\* False, or something in the body raises
WorkerRun ==
    /\ \E w \in DOMAIN workers, outcome \in PipelineOutcomes :
          /\ workers[w].pc = "run"
          /\ after_queue' = root_after(after_queue, SetText(OutcomeText(outcome)))
          /\ workers' =
               [workers EXCEPT ![w] =
                   [Count(@, outcome) EXCEPT
                       !.pc = "next",
                       !.i = @ + 1,
                       !.done = Append(@, workers[w].files[workers[w].i + 1])]]
    /\ WorkerFrame

\* after the loop, lines 587-589
WorkerSummary ==
    /\ \E w \in DOMAIN workers :
          /\ workers[w].pc = "next"
          /\ workers[w].i = Len(workers[w].files)
          /\ after_queue' = root_after(after_queue, SetText("Summary"))
          /\ workers' = [workers EXCEPT ![w].pc = "finally"]
    /\ WorkerFrame

WorkerFinally_Direct ==
    /\ \E w \in DOMAIN workers :
          /\ workers[w].pc = "finally"
          /\ workers' = [workers EXCEPT ![w].pc = "ended", ![w].finished = TRUE]
    /\ processing_active' = FALSE
    /\ progress_bar' = "stopped"
    /\ process_btn' = update_ui_state(listbox, FALSE)
    /\ thread' = "worker"
    /\ UNCHANGED <<listbox, progress_var, after_queue, asking, files_to_process,
                   coreVars, runVars, replaceVars>>

\* the finally clause, lines 595-597
WorkerFinally ==
    /\ \E w \in DOMAIN workers :
          /\ workers[w].pc = "finally"
          /\ after_queue' = schedule_finished(after_queue, w)
          /\ workers' = [workers EXCEPT ![w].pc = "ended"]
    /\ WorkerFrame

WorkerStep == WorkerNext \/ WorkerRun \/ WorkerSummary \/ WorkerFinally

NextGui ==
    \/ Drop \/ ClearQueue \/ StartProcessing \/ AnswerDialog \/ RunCallback
    \/ WorkerNext \/ WorkerRun \/ WorkerSummary \/ WorkerFinally

SpecGui == InitGui /\ [][NextGui]_vars

\* the worker threads keep running and the event loop keeps serving callbacks
SpecGuiLive == SpecGui /\ WF_vars(WorkerStep) /\ WF_vars(RunCallback)

(***************************************************************************)
(* Vocabulary of the properties of the Style Patcher                       *)
(***************************************************************************)
\* a line that opens the [V4+ Styles] section
OpensStyles(line) == Strip(line) = HDR

\* a line that opens a different bracketed section
OpensOther(line) ==
    /\ line # <<>>
    /\ Head(line) = "["
    /\ Last(line) = "]"
    /\ ~OpensStyles(line)

\* line i of doc lies in the [V4+ Styles] section: from the header up to the
\* next line that opens a different section, or the end of the document
InStyles(doc, i) ==
    \E h \in 1..i :
        /\ OpensStyles(doc[h])
        /\ \A j \in (h + 1)..i : ~OpensOther(doc[j])

\* the name field of a Style: line
NameField(line) ==
    LET rest == LStrip(Tail(line))
    IN  IF rest = <<>> THEN "" ELSE Head(rest)

\* a Style: line whose name field is Default
NamedDefault(line) ==
    /\ line # <<>>
    /\ Head(line) = "Style:"
    /\ NameField(line) = "Default"

\* a Style: line in which the text Default occurs somewhere
MentionsDefault(line) ==
    /\ line # <<>>
    /\ Head(line) = "Style:"
    /\ \E i \in 1..Len(line) : line[i] \in {"Default", "DefaultSans"}

FormatIn(doc)   == {i \in 1..Len(doc) : InStyles(doc, i) /\ Head(doc[i]) = "Format:"}
DefaultIn(doc)  == {i \in 1..Len(doc) : InStyles(doc, i) /\ NamedDefault(doc[i])}
MentionIn(doc)  == {i \in 1..Len(doc) : InStyles(doc, i) /\ MentionsDefault(doc[i])}
HeadersIn(doc)  == {i \in 1..Len(doc) : OpensStyles(doc[i])}

\* the lines of doc outside the [V4+ Styles] section, in order
RECURSIVE OutsideFrom(_, _)
OutsideFrom(doc, i) ==
    IF i > Len(doc) THEN <<>>
    ELSE IF InStyles(doc, i) THEN OutsideFrom(doc, i + 1)
    ELSE <<doc[i]>> \o OutsideFrom(doc, i + 1)

Outside(doc) == OutsideFrom(doc, 1)

\* the last call read and wrote the file: prev_file is its input, ass_file its output
Patched == patch_result = "True" /\ ~io_error

NewDefault == create_ass_style_line(style_config, "Default")

(***************************************************************************)
(* C1: a document with a single [V4+ Styles] section holding a Format:     *)
(* line and one Style line named Default comes out identical except that   *)
(* this one line is replaced by create_ass_style_line(C, "Default").       *)
(***************************************************************************)
C1_Pre(doc) ==
    /\ Cardinality(HeadersIn(doc)) = 1
    /\ FormatIn(doc) # {}
    /\ Cardinality(DefaultIn(doc)) = 1

C1_Expected(doc) ==
    [i \in 1..Len(doc) |-> IF i \in DefaultIn(doc) THEN NewDefault ELSE doc[i]]

C1_ReplacesTheDefaultLine ==
    (Patched /\ C1_Pre(prev_file)) => ass_file = C1_Expected(prev_file)

(***************************************************************************)
(* C2: applying the same style config twice in succession yields the same  *)
(* document as applying it once.                                           *)
(***************************************************************************)
C2_Idempotent ==
    (Patched /\ patch_calls = 2) => ass_file = prev_file

(***************************************************************************)
(* C3: the lines outside the [V4+ Styles] section pass through unmodified  *)
(* and no line is inserted outside the section.                            *)
(***************************************************************************)
C3_OutsideUntouched ==
    Patched => Outside(ass_file) = Outside(prev_file)

C5_OnlyFirstNamedDefault ==
    (Patched /\ Len(ass_file) = Len(prev_file))
        => \A i \in 1..Len(prev_file) :
              ass_file[i] # prev_file[i]
                 => /\ DefaultIn(prev_file) # {}
                    /\ i = Min(DefaultIn(prev_file))
                    /\ ass_file[i] = NewDefault

(***************************************************************************)
(* C6: when the section has a Format: line and no Default style line (no    *)
(* Style: line of the section mentions Default), one synthesized line is   *)
(* inserted immediately after that section's Format: line: one more line   *)
(* than the input, the new line inside the section, also when there are    *)
(* Format: lines in other sections or several [V4+ Styles] headers.        *)
(***************************************************************************)
C6_InsertedAfterFormat ==
    (Patched /\ FormatIn(prev_file) # {} /\ MentionIn(prev_file) = {})
        => \E i \in FormatIn(prev_file) :
              ass_file = InsertAt(prev_file, i + 1, NewDefault)

(***************************************************************************)
(* C7: a document with no [V4+ Styles] section is left unchanged and the   *)
(* call reports success.                                                   *)
(***************************************************************************)
C7_NoSectionNoChange ==
    (patch_result # "none" /\ ~io_error /\ HeadersIn(prev_file) = {})
        => /\ ass_file = prev_file
           /\ patch_result = "True"

C7_Witness ==
    /\ Patched
    /\ HeadersIn(prev_file) = {}
    /\ \E i \in 1..Len(prev_file) : Head(prev_file[i]) = "Format:"
    /\ \E i \in 1..Len(prev_file) : NamedDefault(prev_file[i])

(***************************************************************************)
(* C8: create_ass_style_line returns 'Style: ' followed by the 23 fields   *)
(* Name, font_name, font_size, primary_color, secondary_color,             *)
(* outline_color, back_color, bold, italic, 0, 0, 100, 100, 0, 0, 1,       *)
(* outline, shadow, alignment, margin_left, margin_right, margin_vertical, *)
(* 1 joined by commas, each configurable field being the config's value or *)
(* the stated default; the empty config and the name Default give the      *)
(* stated line.                                                            *)
(***************************************************************************)
C8_Configurable(key, default) == [key |-> key, text |-> default]
C8_Fixed(text) == [key |-> "", text |-> text]

C8_Layout ==
    << C8_Configurable("font_name", "Arial"), C8_Configurable("font_size", "20"),
       C8_Configurable("primary_color", "&H00FFFFFF"),
       C8_Configurable("secondary_color", "&H000000FF"),
       C8_Configurable("outline_color", "&H00000000"),
       C8_Configurable("back_color", "&H80000000"),
       C8_Configurable("bold", "0"), C8_Configurable("italic", "0"),
       C8_Fixed("0"), C8_Fixed("0"), C8_Fixed("100"), C8_Fixed("100"),
       C8_Fixed("0"), C8_Fixed("0"), C8_Fixed("1"),
       C8_Configurable("outline", "2"), C8_Configurable("shadow", "0"),
       C8_Configurable("alignment", "2"), C8_Configurable("margin_left", "10"),
       C8_Configurable("margin_right", "10"),
       C8_Configurable("margin_vertical", "10"), C8_Fixed("1") >>

\* the 23 fields expected for a config and a name
C8_Fields(cfg, name) ==
    <<name>> \o
    [i \in 1..Len(C8_Layout) |->
        IF C8_Layout[i].key \in DOMAIN cfg
        THEN Str(cfg[C8_Layout[i].key])
        ELSE C8_Layout[i].text]

\* fields joined by commas
RECURSIVE C8_Join(_)
C8_Join(fields) ==
    IF Len(fields) = 1 THEN <<fields[1]>>
    ELSE <<fields[1], ",">> \o C8_Join(Tail(fields))

C8_StyleLineLayout ==
    style_line # <<>>
        => /\ Len(C8_Fields(style_config, style_name)) = 23
           /\ style_line = <<"Style:", " ">> \o C8_Join(C8_Fields(style_config, style_name))
           /\ (style_config = EmptyConfig /\ style_name = "Default")
                 => Render(style_line) =
                       "Style: Default,Arial,20,&H00FFFFFF,&H000000FF,&H00000000,&H80000000,0,0,0,0,100,100,0,0,1,2,0,2,10,10,10,1"

C8_Witness ==
    /\ style_line # <<>>
    /\ "font_size" \in DOMAIN style_config
    /\ style_config["font_size"].isInt
    /\ "margin_vertical" \in DOMAIN style_config

(***************************************************************************)
(* C9: detect_subtitle_format returns 'ass' whenever the content contains  *)
(* '[Script Info]', otherwise 'vtt' when the trimmed content starts with   *)
(* WEBVTT, otherwise 'srt' when the SRT pattern occurs, otherwise          *)
(* 'unknown'; an unreadable file yields 'unknown'.                         *)
(***************************************************************************)
C9_Ass(content) == \E i \in 1..Len(content) : content[i] = "[Script Info]"

C9_Vtt(content) ==
    \E i \in 1..Len(content) :
        /\ content[i] = "WEBVTT"
        /\ \A j \in 1..(i - 1) : content[j] \in {" ", "\n"}

C9_Srt(content) ==
    \E i \in 1..(Len(content) - 2) :
        /\ content[i] \in {"1", "00:00:01,000 --> 00:00:02,000", "00:00:01.000 --> 00:00:02.000"}
        /\ content[i + 1] = "\n"
        /\ content[i + 2] = "00:00:01,000 --> 00:00:02,000"

C9_DetectionPriority ==
    detected # "none"
        => /\ detected \in {"ass", "vtt", "srt", "unknown"}
           /\ ~sub_readable => detected = "unknown"
           /\ sub_readable =>
                 /\ C9_Ass(sub_content) => detected = "ass"
                 /\ (~C9_Ass(sub_content) /\ C9_Vtt(sub_content)) => detected = "vtt"
                 /\ (~C9_Ass(sub_content) /\ ~C9_Vtt(sub_content) /\ C9_Srt(sub_content))
                       => detected = "srt"
                 /\ (~C9_Ass(sub_content) /\ ~C9_Vtt(sub_content) /\ ~C9_Srt(sub_content))
                       => detected = "unknown"

C9_Witness ==
    /\ detected = "ass"
    /\ C9_Vtt(sub_content)
    /\ C9_Srt(sub_content)

(***************************************************************************)
(* C10: the lookup is case-insensitive in the extension: a path that       *)
(* differs only in the letter case of its extension resolves to the same   *)
(* processor; a path whose lowercased extension is not a registered key    *)
(* resolves to None, and can_process is False for it.                      *)
(***************************************************************************)
\* position of the final dot of the path, 0 when there is none
C10_FinalDot(path) ==
    IF \E i \in 1..Len(path) : path[i] = "."
    THEN CHOOSE i \in 1..Len(path) :
            path[i] = "." /\ \A j \in (i + 1)..Len(path) : path[j] # "."
    ELSE 0

C10_SameLetter(c, d) ==
    \/ c = d
    \/ {c, d} \in {{"m", "M"}, {"v", "V"}}

\* the paths that differ from path only in the letter case of the extension
RECURSIVE C10_VariantsFrom(_, _)
C10_VariantsFrom(path, i) ==
    IF i > Len(path) THEN {<<>>}
    ELSE {<<c>> \o rest :
             c \in {d \in PathChars :
                      IF C10_FinalDot(path) > 0 /\ i > C10_FinalDot(path)
                      THEN C10_SameLetter(d, path[i])
                      ELSE d = path[i]},
             rest \in C10_VariantsFrom(path, i + 1)}

C10_Variants(path) == C10_VariantsFrom(path, 1)

\* the extension of the path in lower case, empty when the path has no dot
C10_LoweredExtension(path) ==
    IF C10_FinalDot(path) = 0 THEN <<>>
    ELSE [i \in 1..(Len(path) - C10_FinalDot(path) + 1) |->
             LET c == path[C10_FinalDot(path) + i - 1]
             IN  IF c = "M" THEN "m" ELSE IF c = "V" THEN "v" ELSE c]

C10_CaseInsensitiveTotal ==
    lookup # "none"
        => /\ \A q \in C10_Variants(file_path) :
                 get_processor(processors, q) = lookup
           /\ C10_LoweredExtension(file_path) \notin DOMAIN processors
                 => /\ lookup = "None"
                    /\ can \in {"none", "False"}
           /\ can # "none" => (can = "True" <=> lookup # "None")

C10_Witness ==
    /\ lookup = "MKVProcessor"
    /\ can = "True"
    /\ Len(file_path) = 5
    /\ SubSeq(file_path, 2, 5) = <<".", "M", "k", "V">>

(***************************************************************************)
(* C11: after any sequence of register_processor calls each extension maps *)
(* to exactly one processor, the one most recently registered for it: a    *)
(* later registration for a registered extension replaces the earlier one, *)
(* and get_processor returns the later one.                                *)
(***************************************************************************)
\* the extensions each processor announces
C11_Announces(processor, ext) ==
    \/ processor = "MKVProcessor" /\ ext = <<".", "m", "k", "v">>
    \/ processor = "CustomProcessor" /\ ext \in {<<".", "m", "k">>, <<".", "m", "k", "v">>}

C11_Registrations(ext) == {i \in 1..Len(reg_log) : C11_Announces(reg_log[i], ext)}

C11_LastRegistered(ext) ==
    reg_log[CHOOSE i \in C11_Registrations(ext) :
                \A j \in C11_Registrations(ext) : j <= i]

C11_LastRegistrationWins ==
    /\ \A ext \in {<<".", "m", "k">>, <<".", "m", "k", "v">>} :
          IF C11_Registrations(ext) = {}
          THEN ext \notin DOMAIN processors
          ELSE /\ ext \in DOMAIN processors
               /\ processors[ext] = C11_LastRegistered(ext)
    /\ \A ext \in DOMAIN processors : C11_Registrations(ext) # {}
    /\ (lookup \notin {"none", "None"})
          => lookup = C11_LastRegistered(Lower(SplitExt(file_path)))

C11_Witness ==
    /\ Len(reg_log) = 2
    /\ reg_log[2] = "CustomProcessor"
    /\ file_path = <<"m", ".", "m", "k", "v">>
    /\ lookup = "CustomProcessor"

(***************************************************************************)
(* Vocabulary of the properties of the pipeline                            *)
(***************************************************************************)
\* the log holds a call of op
Called(op) == \E i \in 1..Len(calls) : calls[i].op = op

\* the log holds a call of op with this outcome
CalledWith(op, out) ==
    \E i \in 1..Len(calls) : calls[i].op = op /\ calls[i].out = out

Entered(stage) == \E i \in 1..Len(stages) : stages[i] = stage

Returned == pc = "done"

(***************************************************************************)
(* C12: in every run the stages are entered in the order Validate,         *)
(* ToolCheck, FormatCheck, Setup, Analyze, TrackSelect, Extract,           *)
(* ConvertIfNeeded, Style, Merge, Cleanup: each at most once, none after a *)
(* later one, and a stage other than Cleanup only if every earlier stage   *)
(* was entered and advanced (no result and no exception yet).              *)
(***************************************************************************)
C12_Order == <<"Validate", "ToolCheck", "FormatCheck", "Setup", "Analyze",
               "TrackSelect", "Extract", "ConvertIfNeeded", "Style", "Merge",
               "Cleanup">>

C12_Rank(stage) == CHOOSE i \in 1..Len(C12_Order) : C12_Order[i] = stage

C12_Ordered ==
    /\ \A i \in 1..Len(stages) : \E k \in 1..Len(C12_Order) : stages[i] = C12_Order[k]
    /\ \A i, j \in 1..Len(stages) :
          i < j => C12_Rank(stages[i]) < C12_Rank(stages[j])
    /\ \A i \in 1..Len(stages) :
          stages[i] # "Cleanup" => C12_Rank(stages[i]) = i

C12_EntersAfterAdvance ==
    (Len(stages') = Len(stages) + 1 /\ Last(stages') # "Cleanup")
        => (result = "none" /\ exc = "none" /\ pc = Last(stages'))

C12_StageOrder == []C12_Ordered /\ [][C12_EntersAfterAdvance]_vars

C12_Witness ==
    /\ Returned
    /\ stages = C12_Order
    /\ result = "True"

(***************************************************************************)
(* C13: process_video_file never raises to its caller: every failure       *)
(* (missing input, no usable tool, unsupported format, no subtitle tracks, *)
(* absent track id, extraction / conversion / merge failure, an exception  *)
(* raised inside a stage) makes it return False.                           *)
(***************************************************************************)
C13_Unsupported == file_path = <<"m", ".", "m", "k">>

C13_AbsentTrack ==
    /\ track_id # 0 - 1
    /\ \A i \in 1..Len(subtitle_tracks) : subtitle_tracks[i] # track_id

C13_Failed ==
    \/ CalledWith("validate_file_exists", "False")
    \/ CalledWith("check_tools_available", "False")
    \/ Entered("FormatCheck") /\ C13_Unsupported
    \/ CalledWith("get_subtitle_tracks", "empty")
    \/ Entered("TrackSelect") /\ C13_AbsentTrack
    \/ CalledWith("extract_subtitle_track", "False")
    \/ CalledWith("convert_to_ass", "False")
    \/ CalledWith("merge_video_with_subtitles", "False")
    \/ \E i \in 1..Len(calls) : calls[i].out = "raised"

C13_NeverRaises ==
    /\ result \in {"none", "True", "False"}
    /\ Returned => result \in {"True", "False"}
    /\ (Returned /\ C13_Failed) => result = "False"

C13_Witness ==
    /\ Returned
    /\ CalledWith("get_subtitle_tracks", "raised")
    /\ exc = "CalledProcessError"
    /\ result = "False"

(***************************************************************************)
(* C14: Cleanup is executed in every run, after a failure at any stage and *)
(* on success: the function returns only after cleanup_temp_directory was  *)
(* called as its last step, and a workspace created in Setup no longer     *)
(* exists after a cleanup whose removal succeeded.                         *)
(***************************************************************************)
C14_CleanupLast ==
    Returned => /\ stages # <<>> /\ Last(stages) = "Cleanup"
                /\ calls # <<>> /\ Last(calls).op = "cleanup_temp_directory"
                /\ \A i \in 1..(Len(calls) - 1) :
                      calls[i].op # "cleanup_temp_directory"

\* the step in which the function returns
C14_WorkspaceRemoved ==
    (~Returned /\ Returned')
        => ((CalledWith("create_temp_directory", "created")
               /\ Last(calls').out = "removed")
              => (temp_dir # 0 /\ temp_dir \notin fs_dirs'))

C14_CleanupAlwaysRuns == []C14_CleanupLast /\ [][C14_WorkspaceRemoved]_vars

C14_Witness ==
    /\ Returned
    /\ CalledWith("extract_subtitle_track", "raised")
    /\ CalledWith("cleanup_temp_directory", "removed")
    /\ fs_dirs = {}

(***************************************************************************)
(* C15: cleanup_temp_directory never raises and always resets the          *)
(* workspace state: after it returns, FileManager.temp_dir is None whether *)
(* the removal succeeded, failed, or the directory had already             *)
(* disappeared.                                                            *)
(***************************************************************************)
C15_CleanupResets == Returned => temp_dir = 0

(***************************************************************************)
(* C16: a style-file load or parse failure is surfaced as a boolean        *)
(* failure: with a style_config_file that is missing, not valid JSON or    *)
(* without a subtitle_style object the run returns False.                  *)
(***************************************************************************)
C16_BadStyleFile ==
    style_config_file \in {"nostyle.json", "invalid.json", "missing.json"}

C16_StyleFileFailureFails == (Returned /\ C16_BadStyleFile) => result = "False"

(***************************************************************************)
(* C17: with no track id the track extracted is the element at index 0 of  *)
(* the analyzed list; with a track id (id 0 included) it is the listed     *)
(* track with that id, and if no listed track has that id the run fails    *)
(* without invoking Extract or Merge.                                      *)
(***************************************************************************)
C17_Listed(id) == \E i \in 1..Len(subtitle_tracks) : subtitle_tracks[i] = id

C17_NoIdGiven == track_id = 0 - 1

C17_Extracted(id) ==
    \E i \in 1..Len(calls) :
        calls[i].op = "extract_subtitle_track" /\ calls[i].track = id

C17_TrackSelect ==
    /\ (Called("extract_subtitle_track") /\ C17_NoIdGiven)
          => \A id \in {0 - 1, 0, 1, 2, 3} :
                C17_Extracted(id) <=> id = subtitle_tracks[1]
    /\ (Called("extract_subtitle_track") /\ ~C17_NoIdGiven)
          => /\ C17_Listed(track_id)
             /\ \A id \in {0 - 1, 0, 1, 2, 3} : C17_Extracted(id) <=> id = track_id
    /\ (Entered("TrackSelect") /\ ~C17_NoIdGiven /\ ~C17_Listed(track_id))
          => /\ ~Called("extract_subtitle_track")
             /\ ~Called("merge_video_with_subtitles")
             /\ ~Entered("Extract") /\ ~Entered("Merge")
             /\ result = "False"

C17_Witness ==
    /\ track_id = 0
    /\ subtitle_tracks = <<2, 0>>
    /\ C17_Extracted(0)
    /\ Returned

(***************************************************************************)
(* C18: the subtitle is handed to the manual editor if and only if the     *)
(* manual-styling flag is set and the editor is available; otherwise the   *)
(* Style Patcher is applied if and only if a style configuration was       *)
(* resolved (from the file when one is named, else inline); if neither     *)
(* holds the file reaches Merge unmodified.  The patcher is never applied  *)
(* in a run that took the manual path.                                     *)
(***************************************************************************)
C18_EditorAvailable == aegisub_path = "aegisub"

C18_Resolved ==
    IF style_config_file # ""
    THEN style_config_file = "style.json"
    ELSE style_config # EmptyConfig

C18_StyleDecision ==
    Entered("Style") =>
        /\ Called("open_for_styling") <=> (manual_styling /\ C18_EditorAvailable)
        /\ ~Called("open_for_styling")
              => (Called("apply_styling_from_config") <=> C18_Resolved)
        /\ Called("open_for_styling") => ~Called("apply_styling_from_config")
        /\ (~Called("open_for_styling") /\ ~Called("apply_styling_from_config")
              /\ Entered("Merge"))
              => ass_file = prev_file

C18_Witness ==
    /\ manual_styling
    /\ ~C18_EditorAvailable
    /\ CalledWith("apply_styling_from_config", "True")
    /\ ass_file # prev_file
    /\ Entered("Merge")

(***************************************************************************)
(* C19: on the manual-styling path the run blocks on a single wait for the *)
(* operator's confirmation with no timeout: Merge is never invoked before  *)
(* the confirmation is received, and without a confirmation the run stays  *)
(* in Style (it neither times out nor fails).                              *)
(***************************************************************************)
C19_Waiting == Called("open_for_styling") /\ ~Called("input")

C19_MergeAfterConfirmation ==
    (Called("open_for_styling") /\ Entered("Merge"))
        => CalledWith("input", "returned")

C19_InStyle == Last(stages) = "Style" /\ result = "none" /\ exc = "none"

\* a step taken while waiting leaves the run in Style unless it is the
\* confirmation
C19_LeavesOnlyOnConfirmation ==
    C19_Waiting =>
        \/ C19_Waiting' /\ C19_InStyle'
        \/ CalledWith("input", "returned")' /\ C19_InStyle'

C19_BlocksUntilConfirmed ==
    /\ [](C19_MergeAfterConfirmation /\ (C19_Waiting => C19_InStyle))
    /\ [][C19_LeavesOnlyOnConfirmation]_vars

(***************************************************************************)
(* C19, amended: the run leaves the wait only when input() returns (the    *)
(* confirmation) or when input() raises because standard input is at end   *)
(* of file; in the second case Merge is not invoked and the run returns    *)
(* False.  There is no timeout, and Merge is never invoked before input()  *)
(* has returned.                                                           *)
(***************************************************************************)
C19_LeavesOnConfirmationOrEof ==
    C19_Waiting =>
        \/ C19_Waiting' /\ C19_InStyle'
        \/ CalledWith("input", "returned")' /\ C19_InStyle'
        \/ CalledWith("input", "raised")' /\ ~Entered("Merge")'

C19_EofFails ==
    CalledWith("input", "raised")
        => /\ ~Entered("Merge")
           /\ ~Called("merge_video_with_subtitles")
           /\ Returned => result = "False"

C19_SingleWait ==
    \A i, j \in 1..Len(calls) :
        (calls[i].op = "input" /\ calls[j].op = "input") => i = j

C19_Amended ==
    /\ [](/\ C19_MergeAfterConfirmation
          /\ C19_Waiting => C19_InStyle
          /\ C19_EofFails
          /\ C19_SingleWait)
    /\ [][C19_LeavesOnConfirmationOrEof]_vars

C19_Witness ==
    /\ Returned
    /\ CalledWith("input", "raised")
    /\ result = "False"

(***************************************************************************)
(* C20: for an existing .mkv input whose analysis yields the single track  *)
(* {id 2}, tools available, no track id, no style config, manual styling   *)
(* disabled, extraction and merge succeeding and the content detected as   *)
(* 'ass', the run extracts track 2, converts nothing, styles nothing,      *)
(* merges the unmodified extracted file, runs Cleanup and returns True.    *)
(***************************************************************************)
C20_Scenario ==
    /\ file_path = <<"m", ".", "m", "k", "v">>
    /\ track_id = 0 - 1
    /\ style_config = EmptyConfig
    /\ style_config_file = ""
    /\ ~manual_styling
    /\ CalledWith("validate_file_exists", "True")
    /\ CalledWith("check_tools_available", "True")
    /\ CalledWith("create_temp_directory", "created")
    /\ subtitle_tracks = <<2>>
    /\ CalledWith("extract_subtitle_track", "True")
    /\ detected = "ass"
    /\ CalledWith("merge_video_with_subtitles", "True")

C20_Outcome ==
    /\ \E i \in 1..Len(calls) :
          /\ calls[i].op = "extract_subtitle_track"
          /\ calls[i].track = 2
    /\ ~Called("convert_to_ass")
    /\ ~Called("load_style_config")
    /\ ~Called("open_for_styling")
    /\ ~Called("input")
    /\ ~Called("apply_styling_from_config")
    /\ ass_file = prev_file
    /\ Last(stages) = "Cleanup"
    /\ Last(calls).op = "cleanup_temp_directory"
    /\ result = "True"

C20_EndToEndSuccess == (Returned /\ C20_Scenario) => C20_Outcome

C20_Witness ==
    /\ Returned
    /\ C20_Scenario
    /\ result = "True"
    /\ Len(stages) = 11

(***************************************************************************)
(* C21: when the input path is not a regular file the run fails at         *)
(* Validate and returns False, no external tool is invoked (no version     *)
(* probe, analysis, extraction, conversion, editor or merge), no temporary *)
(* workspace is created, and Cleanup still runs as a no-op.                *)
(***************************************************************************)
C21_InputMissing == CalledWith("validate_file_exists", "False")

C21_MissingInputFails ==
    C21_InputMissing =>
        /\ result = "False"
        /\ \A i \in 1..Len(calls) :
              calls[i].op \in {"validate_file_exists", "cleanup_temp_directory"}
        /\ \A i \in 1..Len(stages) : stages[i] \in {"Validate", "Cleanup"}
        /\ Returned => /\ stages = <<"Validate", "Cleanup">>
                       /\ Len(calls) = 2
                       /\ Last(calls).op = "cleanup_temp_directory"
                       /\ Last(calls).out = "skipped"

C21_Witness ==
    /\ Returned
    /\ C21_InputMissing
    /\ fs_dirs = {}
    /\ temp_dir = 0

(***************************************************************************)
(* C22: there is no retry: within one run the analysis, extraction,        *)
(* conversion and merge tools are each invoked at most once, and a single  *)
(* failure of any of them ends the run with False without a second attempt.*)
(***************************************************************************)
C22_Tools == {"get_subtitle_tracks", "extract_subtitle_track", "convert_to_ass",
              "merge_video_with_subtitles"}

C22_Invocations(op) == {i \in 1..Len(calls) : calls[i].op = op}

C22_ToolFailed(i) ==
    calls[i].op \in C22_Tools /\ calls[i].out \in {"False", "raised"}

C22_NoRetry ==
    /\ \A op \in C22_Tools : Cardinality(C22_Invocations(op)) <= 1
    /\ \A i \in 1..Len(calls) :
          C22_ToolFailed(i)
              => /\ \A j \in (i + 1)..Len(calls) :
                       calls[j].op = "cleanup_temp_directory"
                 /\ pc \in {"except", "Cleanup", "done"}
                 /\ Returned => result = "False"

C22_Witness ==
    /\ Returned
    /\ CalledWith("extract_subtitle_track", "False")
    /\ result = "False"
    /\ Cardinality(C22_Invocations("extract_subtitle_track")) = 1

(***************************************************************************)
(* C29: process_video_file returns True only if Merge was invoked in that  *)
(* run and reported success: never when Validate, ToolCheck, FormatCheck,  *)
(* Analyze, TrackSelect, Extract or a needed conversion failed; and Merge  *)
(* is invoked only after Extract succeeded, and after the conversion       *)
(* succeeded when the detected format was not 'ass'.                       *)
(***************************************************************************)
C29_EarlierStageFailed ==
    \/ CalledWith("validate_file_exists", "False")
    \/ CalledWith("check_tools_available", "False")
    \/ Entered("FormatCheck") /\ file_path = <<"m", ".", "m", "k">>
    \/ CalledWith("get_subtitle_tracks", "empty")
    \/ CalledWith("get_subtitle_tracks", "raised")
    \/ /\ Entered("TrackSelect")
       /\ track_id # 0 - 1
       /\ \A i \in 1..Len(subtitle_tracks) : subtitle_tracks[i] # track_id
    \/ CalledWith("extract_subtitle_track", "False")
    \/ CalledWith("extract_subtitle_track", "raised")
    \/ CalledWith("convert_to_ass", "False")

C29_TrueOnlyAfterMerge ==
    /\ result = "True" => /\ CalledWith("merge_video_with_subtitles", "True")
                          /\ ~C29_EarlierStageFailed
    /\ C29_EarlierStageFailed => ~Called("merge_video_with_subtitles")
    /\ Called("merge_video_with_subtitles")
          => /\ CalledWith("extract_subtitle_track", "True")
             /\ detected # "ass" => CalledWith("convert_to_ass", "True")

C29_Witness ==
    /\ Returned
    /\ result = "True"
    /\ detected = "srt"
    /\ CalledWith("convert_to_ass", "True")

(***************************************************************************)
(* C24: each pipeline run uses its own temporary workspace: the directory  *)
(* a run gets from Setup is newly created, so no other run, earlier or     *)
(* simultaneous, operates on it; the workspaces of runs in progress are    *)
(* pairwise different and exist; and the Cleanup of one run removes at     *)
(* most its own workspace and touches that of no other run.                *)
(***************************************************************************)
C24_InProgress(r) == run_pc[r] \in {"working", "finally"} /\ run_temp_dir[r] # 0

C24_OwnWorkspace ==
    \A r1, r2 \in 1..MaxWorkspaces :
        (C24_InProgress(r1) /\ C24_InProgress(r2) /\ r1 # r2)
            => /\ run_temp_dir[r1] # run_temp_dir[r2]
               /\ run_temp_dir[r1] \in shared_dirs

C24_FreshAtSetup ==
    \A r \in 1..MaxWorkspaces :
        (run_pc[r] = "new" /\ run_pc'[r] = "working")
            => /\ run_temp_dir'[r] \notin shared_dirs
               /\ run_temp_dir'[r] \in shared_dirs'
               /\ \A r2 \in 1..MaxWorkspaces \ {r} :
                     run_temp_dir[r2] # run_temp_dir'[r]

C24_CleanupOwn ==
    \A r \in 1..MaxWorkspaces :
        (run_pc[r] = "finally" /\ run_pc'[r] = "done")
            => /\ shared_dirs' \subseteq shared_dirs
               /\ shared_dirs \ shared_dirs' \subseteq {run_temp_dir[r]}
               /\ \A r2 \in 1..MaxWorkspaces \ {r} :
                     /\ run_temp_dir'[r2] = run_temp_dir[r2]
                     /\ C24_InProgress(r2) => run_temp_dir[r2] \in shared_dirs'

C24_WorkspacePerRun ==
    /\ []C24_OwnWorkspace
    /\ [][C24_FreshAtSetup /\ C24_CleanupOwn]_vars

\* two runs in progress at once, after an earlier run has finished and its
\* directory name has been taken again
C24_Witness ==
    /\ run_pc[1] = "done"
    /\ C24_InProgress(2) /\ C24_InProgress(3)
    /\ shared_dirs = {run_temp_dir[2], run_temp_dir[3]}

(***************************************************************************)
(* C25: backup_and_replace_file replaces the original by two separate      *)
(* moves that are not atomic together: between them the original path      *)
(* holds no file and only the backup copy exists, and a crash in that      *)
(* state leaves the file system in it.                                     *)
(***************************************************************************)
C25_BackupOnly ==
    /\ br_files.original = "none"
    /\ br_backup \in DOMAIN br_files.backups
    /\ br_files.backups[br_backup] = "ORIGINAL"

C25_BetweenMoves == br_pc = "move2" => C25_BackupOnly

C25_CrashKeepsFiles == br_pc' = "crashed" => br_files' = br_files

C25_NotAtomic == []C25_BetweenMoves /\ [][C25_CrashKeepsFiles]_vars

C25_Witness ==
    /\ br_pc = "crashed"
    /\ C25_BackupOnly
    /\ br_files.processed = "PROCESSED"

(***************************************************************************)
(* C30: backup_and_replace_file never loses the original content: in every *)
(* state during the call and after it returns the content is at the        *)
(* original path or at a backup path; the backup name chosen never         *)
(* overwrites an existing backup; and when the second move fails after the *)
(* first succeeded the function moves the backup back to the original path *)
(* and returns False.                                                      *)
(***************************************************************************)
C30_OriginalKept ==
    \/ br_files.original = "ORIGINAL"
    \/ \E k \in DOMAIN br_files.backups : br_files.backups[k] = "ORIGINAL"

C30_BackupsKept ==
    \A k \in DOMAIN br_files.backups :
        br_files.backups[k] = "OLD" => br_files.backups'[k] = "OLD"

\* the step that ends the call after the second move failed
C30_SecondMoveFailed == br_pc = "except2" /\ br_pc' = "done"

C30_MovedBack ==
    C30_SecondMoveFailed
        => /\ br_files'.original = "ORIGINAL"
           /\ br_files'.backups[br_backup] = "none"
           /\ br_result' = "False"

C30_NeverLosesOriginal ==
    /\ []C30_OriginalKept
    /\ [][C30_BackupsKept /\ C30_MovedBack]_vars

(***************************************************************************)
(* C30, amended: as above, but when the second move fails after the first  *)
(* succeeded the function returns False and has either moved the backup    *)
(* back to the original path, or, when the failed move left a file at the  *)
(* original path or the move back itself failed, left the original content *)
(* at the backup path.                                                     *)
(***************************************************************************)
C30_MovedBackOrKept ==
    C30_SecondMoveFailed
        => /\ br_result' = "False"
           /\ \/ /\ br_files'.original = "ORIGINAL"
                 /\ br_files'.backups[br_backup] = "none"
              \/ /\ br_files'.backups[br_backup] = "ORIGINAL"
                 /\ br_files'.original \in {"none", "PARTIAL"}
                 /\ br_files' = br_files

C30_Amended ==
    /\ []C30_OriginalKept
    /\ [][C30_BackupsKept /\ C30_MovedBackOrKept]_vars

C30_Witness ==
    /\ br_pc = "done"
    /\ br_result = "False"
    /\ br_files.original = "PARTIAL"
    /\ br_files.backups[1] = "ORIGINAL"
    /\ br_files.backups[0] = "OLD"

(***************************************************************************)
(* C23: during GUI batch processing the worker thread never mutates        *)
(* presentation state directly: every write to the progress text, the      *)
(* progress bar, the processing_active flag and the button state is made   *)
(* on the presentation thread; a step of the worker only appends a         *)
(* callback to the root.after queue, in every interleaving with user       *)
(* events.                                                                 *)
(***************************************************************************)
C23_PresentationState ==
    <<progress_var, progress_bar, processing_active, process_btn, listbox>>

C23_OnlySchedules ==
    /\ Len(after_queue') = Len(after_queue) + 1
    /\ SubSeq(after_queue', 1, Len(after_queue)) = after_queue

C23_WorkerStepIsolated ==
    thread' = "worker" => UNCHANGED C23_PresentationState /\ C23_OnlySchedules

C23_WorkerNeverWrites == [][C23_WorkerStepIsolated]_vars

C23_Witness ==
    /\ thread = "worker"
    /\ processing_active
    /\ progress_bar = "running"
    /\ \E k \in DOMAIN after_queue : after_queue[k].cb = "processing_finished"
    /\ \E k \in DOMAIN after_queue : after_queue[k].cb = "set_text"

(***************************************************************************)
(* C26: at most one GUI batch worker is active at any time:                *)
(* start_processing starts no new worker while processing_active is true,  *)
(* and processing_active stays true from the launch of a worker until      *)
(* processing_finished has run for it, in every interleaving of clicks,    *)
(* drops and worker progress.                                              *)
(***************************************************************************)
C26_Live == {w \in DOMAIN workers : ~workers[w].finished}

C26_AtMostOne == Cardinality(C26_Live) <= 1

C26_ActiveWhileLive == C26_Live # {} => processing_active

C26_NoStartWhileActive == Len(workers') > Len(workers) => ~processing_active

C26_SingleWorker ==
    /\ [](C26_AtMostOne /\ C26_ActiveWhileLive)
    /\ [][C26_NoStartWhileActive]_vars

C26_Witness ==
    /\ Cardinality(C26_Live) = 1
    /\ \E w \in C26_Live : workers[w].pc = "ended"
    /\ processing_active
    /\ progress_bar = "running"
    /\ process_btn = "disabled"
    /\ listbox # <<>>

(***************************************************************************)
(* C27: a GUI batch processes every file of the queue snapshot taken at    *)
(* start exactly once and in queue order: a run that returns False or      *)
(* raises does not stop the batch, later changes of the visible queue do   *)
(* not change the files processed, and when the batch ends processed +     *)
(* failed is the number of files of the snapshot.                          *)
(***************************************************************************)
C27_Distinct(files) ==
    \A j, k \in DOMAIN files : files[j] = files[k] => j = k

C27_Ended(w) == workers[w].pc \in {"finally", "ended"}

C27_InOrder ==
    \A w \in DOMAIN workers :
        /\ C27_Distinct(workers[w].files)
        /\ Len(workers[w].done) <= Len(workers[w].files)
        /\ workers[w].done = SubSeq(workers[w].files, 1, Len(workers[w].done))
        /\ C27_Ended(w) =>
              /\ workers[w].done = workers[w].files
              /\ workers[w].processed + workers[w].failed = Len(workers[w].files)

\* the snapshot is the queue at the moment start_processing is entered
C27_SnapshotAtStart ==
    /\ (~asking /\ asking') => files_to_process' = listbox
    /\ Len(workers') > Len(workers) =>
          workers'[Len(workers')].files =
              IF asking THEN files_to_process ELSE listbox

C27_SnapshotFixed ==
    \A w \in DOMAIN workers :
        w \in DOMAIN workers' /\ workers'[w].files = workers[w].files

C27_WholeSnapshot ==
    /\ []C27_InOrder
    /\ [][C27_SnapshotAtStart /\ C27_SnapshotFixed]_vars

C27_Witness ==
    \E w \in DOMAIN workers :
        /\ workers[w].pc = "ended"
        /\ Len(workers[w].files) = 2
        /\ workers[w].done = workers[w].files
        /\ \E k \in DOMAIN after_queue : after_queue[k].text = "Error"
        /\ \E k \in DOMAIN after_queue : after_queue[k].text = "Completed"
        /\ workers[w].processed = 1
        /\ workers[w].failed = 1
        /\ listbox = <<>>

(***************************************************************************)
(* C28: every started GUI batch eventually ends: as long as each file's    *)
(* pipeline run returns, processing_finished is eventually run on the      *)
(* presentation thread and processing_active is false again, with Start    *)
(* Processing enabled exactly when the queue is non-empty, whatever the    *)
(* outcomes of the batch were.                                             *)
(***************************************************************************)
C28_Started(n) == Len(workers) >= n

C28_Finished(n) == Len(workers) >= n /\ workers[n].finished

C28_FinishStep ==
    (\E w \in DOMAIN workers : ~workers[w].finished /\ workers'[w].finished)
        => /\ thread' = "main"
           /\ ~processing_active'
           /\ progress_bar' = "stopped"
           /\ process_btn' = IF listbox' # <<>> THEN "normal" ELSE "disabled"

C28_EveryBatchEnds ==
    /\ \A n \in 1..MaxBatches : C28_Started(n) ~> C28_Finished(n)
    /\ processing_active ~> ~processing_active
    /\ [][C28_FinishStep]_vars

C28_Witness ==
    /\ C28_Finished(1)
    /\ workers[1].processed = 1
    /\ workers[1].failed = 1
    /\ ~processing_active
    /\ process_btn = "normal"

====
